---- MODULE Spec2Model ----
(***************************************************************************)
(* A model of the semantic core of the jellyc compiler: the driver         *)
(* (main.c), the role analyser (role-analysis.c), the structural type      *)
(* interner (data/tir.c), the substructural checker (tir-analysis.c) and   *)
(* the TIR -> MIR lowering (tir2mir.c), and the elaboration of single      *)
(* expressions (type-analysis.c).  Each component is its own               *)
(* specification over its own group of variables; the other groups are     *)
(* held idle.                                                              *)
(***************************************************************************)
EXTENDS Integers, Sequences, FiniteSets, TLC

VARIABLES
    \* ---- driver (main.c)
    drv_pc,          \* position of main(): parse, collect, roles, types, gate, affine, lower, gen, exit
    file_module,     \* files[i].module
    scanned,         \* top-level nodes handed to add_global so far, in order
    ast_refs,        \* b->ast_refs: the accepted global definitions
    file_scope,      \* files[i].scope: name -> entry
    private_scope,   \* modules[m].private_scope
    public_scope,    \* modules[m].public_scope
    extern_symbols,  \* b->extern_symbols
    functions,       \* b->functions
    drv_diags,       \* diagnostic kinds printed by add_global
    add_global_ret,  \* the values add_global returned, in order
    stage_error,     \* error result of each stage that ran
    ran,             \* the stages main() has called
    exit_code,       \* main's return value, or "running"
    \* ---- role analysis (role-analysis.c)
    r_asts,          \* the definitions (c.ast_refs) of the two compilations compared
    r_pass,          \* which compilation runs: 1, 2; 3 when both returned
    r_i,             \* index of the top-level loop of analyze_roles
    r_j,             \* index of the function-body loop of analyze_roles
    r_ctx,           \* the Context c of analyze_roles
    r_stack,         \* the activations of analyze_def, innermost last
    r_out,           \* the RirTopOutput (and RIR) of the compilations that returned
    \* ---- TIR -> MIR lowering of one function (tir2mir.c)
    l_void,          \* func_type.ret.id == TYPE_VOID
    l_start,         \* start: c->mir.mir.len after the MIR_PARAM instructions
    l_mir,           \* c->mir.mir: the instructions, [tag, index]
    l_basic_block,   \* c->basic_block
    l_frames,        \* the transform_if / transform_loop activations, innermost last
    l_breaks,        \* c->break_instructions
    l_continues,     \* c->continue_instructions
    l_switch,        \* the transform_switch activation, or NoSwitch
    l_closed,        \* the block being lowered ended in break, continue or return
    l_stmts,         \* statements lowered so far
    l_pc,            \* "body" while transform_function runs its loop, then "done"
    l_done,          \* the ifs, loops, breaks and continues lowered so far, in order
    \* ---- substructural check of one function (tir-analysis.c)
    k_var_count,     \* ctx.var_count
    k_locals,        \* locals declared so far (parameters first)
    k_scope,         \* the locals a statement here can name
    k_stack,         \* check_function / check_if / check_loop activations
    k_mem,           \* the cells of the scratch arena holding VariableStates
    k_switch,        \* the check_switch activation, or NoSwitch
    k_diags,         \* kinds of the diagnostics printed
    k_paths,         \* per acyclic path to this point: consumptions of each local
    k_stmts,         \* statements checked so far
    k_pc,            \* "body", then "done"
    k_error,         \* what check_substructural_types returns
    k_last,          \* the last statement that used a local: the uses and what was printed
    \* ---- structural type interning (data/tir.c, analyze_types)
    y_phase,         \* "global": the loop over input->order; "threads": the omp for
    y_global,        \* global_tir.types: the TypeList of the declarations
    y_thread,        \* tirs[i].deps.types: the TypeList of each function body
    y_last,          \* the last call of new_structural_type and what it returned
    \* ---- elaboration of one expression (type-analysis.c)
    e_pc,            \* which analyze_* function is modelled, or "idle"
    e_in,            \* the operands the expression under analysis was given
    e_out,           \* what the last analyze_* call returned
    e_diags          \* kinds of the diagnostics printed for the expression

drvVars == <<drv_pc, file_module, scanned, ast_refs, file_scope, private_scope,
             public_scope, extern_symbols, functions, drv_diags, add_global_ret,
             stage_error, ran, exit_code>>

roleVars == <<r_asts, r_pass, r_i, r_j, r_ctx, r_stack, r_out>>

lowerVars == <<l_void, l_start, l_mir, l_basic_block, l_frames, l_breaks, l_continues,
               l_switch, l_closed, l_stmts, l_pc, l_done>>

linVars == <<k_var_count, k_locals, k_scope, k_stack, k_mem, k_switch, k_diags, k_paths,
             k_stmts, k_pc, k_error, k_last>>

typeVars == <<y_phase, y_global, y_thread, y_last>>

exprVars == <<e_pc, e_in, e_out, e_diags>>

vars == <<drvVars, roleVars, lowerVars, linVars, typeVars, exprVars>>

notDrvVars == <<roleVars, lowerVars, linVars, typeVars, exprVars>>

notRoleVars == <<drvVars, lowerVars, linVars, typeVars, exprVars>>

notLowerVars == <<drvVars, roleVars, linVars, typeVars, exprVars>>

notLinVars == <<drvVars, roleVars, lowerVars, typeVars, exprVars>>

notTypeVars == <<drvVars, roleVars, lowerVars, linVars, exprVars>>

notExprVars == <<drvVars, roleVars, lowerVars, linVars, typeVars>>

(***************************************************************************)
(* Helpers                                                                 *)
(***************************************************************************)
NoEntry == -1

Range(s) == {s[i] : i \in DOMAIN s}

Reverse(s) == [i \in 1 .. Len(s) |-> s[Len(s) + 1 - i]]

\* The components at rest while another component runs.
DrvIdle ==
    /\ drv_pc = "idle" /\ file_module = <<>> /\ scanned = <<>> /\ ast_refs = <<>>
    /\ file_scope = <<>> /\ private_scope = <<>> /\ public_scope = <<>>
    /\ extern_symbols = <<>> /\ functions = <<>> /\ drv_diags = {}
    /\ add_global_ret = <<>> /\ stage_error = <<>> /\ ran = {} /\ exit_code = "idle"

RoleIdle ==
    /\ r_asts = <<>> /\ r_pass = 0 /\ r_i = 0 /\ r_j = 0 /\ r_ctx = <<>>
    /\ r_stack = <<>> /\ r_out = <<>>

LowerIdle ==
    /\ l_void = FALSE /\ l_start = 0 /\ l_mir = <<>> /\ l_basic_block = 0
    /\ l_frames = <<>> /\ l_breaks = <<>> /\ l_continues = <<>> /\ l_closed = FALSE
    /\ l_switch = [active |-> FALSE] /\ l_stmts = 0 /\ l_pc = "idle" /\ l_done = <<>>

LinIdle ==
    /\ k_var_count = 0 /\ k_locals = 0 /\ k_scope = {} /\ k_stack = <<>> /\ k_mem = <<>>
    /\ k_switch = [active |-> FALSE] /\ k_diags = {} /\ k_paths = {} /\ k_stmts = 0
    /\ k_pc = "idle" /\ k_error = 0 /\ k_last = <<>>

TypeIdle ==
    /\ y_phase = "idle" /\ y_global = <<>> /\ y_thread = <<>> /\ y_last = <<>>

ExprIdle ==
    /\ e_pc = "idle" /\ e_in = <<>> /\ e_out = <<>> /\ e_diags = {}

(***************************************************************************)
(* 1. The driver: main.c                                                   *)
(***************************************************************************)
MaxDefs == 3

NFiles == 2
Files == 0 .. (NFiles - 1)
Modules == 0 .. (NFiles - 1)

\* "i32" is a name main() pre-registers in global_scope (simple-types).
DefNames == {"f", "g", "i32"}
BuiltinNames == {"i32"}

\* AST tags add_global accepts.  AST_ENUM, AST_NEWTYPE and AST_CONST take the
\* same path as AST_STRUCT, and AST_EXTERN_MUT the same as AST_EXTERN_FUNCTION.
DefKinds == {"AST_IMPORT", "AST_FUNCTION", "AST_STRUCT", "AST_EXTERN_FUNCTION"}

TopNodes == [file : Files, name : DefNames, kind : DefKinds, public : BOOLEAN]

EmptyScope == [n \in DefNames |-> NoEntry]

\* lookup() of main.c: file scope, private scope, public scope, built-ins.
DrvLookup(file, name) ==
    LET m == file_module[file] IN
    IF file_scope[file][name] # NoEntry THEN [kind |-> "SYM_GLOBAL", id |-> file_scope[file][name]]
    ELSE IF private_scope[m][name] # NoEntry THEN [kind |-> "SYM_GLOBAL", id |-> private_scope[m][name]]
    ELSE IF public_scope[m][name] # NoEntry THEN [kind |-> "SYM_GLOBAL", id |-> public_scope[m][name]]
    ELSE IF name \in BuiltinNames THEN [kind |-> "SYM_BUILTIN", id |-> 0]
    ELSE [kind |-> "SYM_UNDEFINED", id |-> 0]

DrvInit ==
    /\ drv_pc = "parse"
    /\ file_module \in {[f \in Files |-> 0], [f \in Files |-> f]}
    /\ scanned = <<>>
    /\ ast_refs = <<>>
    /\ file_scope = [f \in Files |-> EmptyScope]
    /\ private_scope = [m \in Modules |-> EmptyScope]
    /\ public_scope = [m \in Modules |-> EmptyScope]
    /\ extern_symbols = EmptyScope
    /\ functions = <<>>
    /\ drv_diags = {}
    /\ add_global_ret = <<>>
    /\ stage_error = [s \in {} |-> 0]
    /\ ran = {}
    /\ exit_code = "running"
    /\ RoleIdle /\ LowerIdle /\ LinIdle /\ TypeIdle /\ ExprIdle

\* main.c:297-307: parse every file; any failure returns -1.
Parse ==
    /\ drv_pc = "parse"
    /\ \E err \in {0, 1} :
        /\ stage_error' = [s \in {"parse"} |-> err]
        /\ IF err = 1
           THEN drv_pc' = "exit" /\ exit_code' = -1
           ELSE drv_pc' = "collect" /\ exit_code' = exit_code
    /\ ran' = ran \cup {"parse"}
    /\ UNCHANGED <<file_module, scanned, ast_refs, file_scope, private_scope,
                   public_scope, extern_symbols, functions, drv_diags, add_global_ret>>
    /\ UNCHANGED notDrvVars

\* add_global (main.c:153-224) called from the loop of main.c:360-365 on the
\* next top-level node; files are scanned in order.
AddGlobal ==
    /\ drv_pc = "collect"
    /\ Len(scanned) < MaxDefs
    /\ \E def \in TopNodes :
        /\ (scanned # <<>> => def.file >= scanned[Len(scanned)].file)
        /\ LET m == file_module[def.file]
               is_extern == def.kind = "AST_EXTERN_FUNCTION"
               is_function == def.kind = "AST_FUNCTION"
               prev_extern == IF is_extern THEN extern_symbols[def.name] ELSE NoEntry
               prev_sym == DrvLookup(def.file, def.name)
               entry == Len(ast_refs)
               target == IF def.kind = "AST_IMPORT" THEN "file"
                         ELSE IF def.public THEN "public" ELSE "private"
           IN
           /\ scanned' = Append(scanned, def)
           /\ IF prev_extern # NoEntry
              THEN /\ drv_diags' = drv_diags \cup {"ERROR_MULTIPLE_EXTERN_DEFINITION", "NOTE_PREVIOUS_DEFINITION"}
                   /\ add_global_ret' = Append(add_global_ret, 1)
                   /\ UNCHANGED <<ast_refs, file_scope, private_scope, public_scope,
                                  extern_symbols, functions>>
              ELSE IF prev_sym.kind # "SYM_UNDEFINED"
              THEN /\ drv_diags' = drv_diags \cup
                        {"ERROR_MULTIPLE_DEFINITION",
                         IF prev_sym.kind = "SYM_GLOBAL" THEN "NOTE_PREVIOUS_DEFINITION"
                         ELSE "NOTE_PREVIOUS_BUILTIN_DEFINITION"}
                   /\ add_global_ret' = Append(add_global_ret, 1)
                   /\ UNCHANGED <<ast_refs, file_scope, private_scope, public_scope,
                                  extern_symbols, functions>>
              ELSE /\ ast_refs' = Append(ast_refs, def)
                   /\ file_scope' = IF target = "file"
                                    THEN [file_scope EXCEPT ![def.file][def.name] = entry]
                                    ELSE file_scope
                   /\ private_scope' = IF target = "private"
                                       THEN [private_scope EXCEPT ![m][def.name] = entry]
                                       ELSE private_scope
                   /\ public_scope' = IF target = "public"
                                      THEN [public_scope EXCEPT ![m][def.name] = entry]
                                      ELSE public_scope
                   /\ extern_symbols' = IF is_extern
                                        THEN [extern_symbols EXCEPT ![def.name] = entry]
                                        ELSE extern_symbols
                   /\ functions' = IF is_function THEN Append(functions, entry) ELSE functions
                   /\ add_global_ret' = Append(add_global_ret, 0)
                   /\ drv_diags' = drv_diags
    \* main.c:363 discards the value returned; the loop goes on.
    /\ UNCHANGED <<drv_pc, exit_code, file_module, stage_error, ran>>
    /\ UNCHANGED notDrvVars

\* main.c:366-389: the collection loop is over; analyze_roles is called.  Its
\* error flag is not looked at before analyze_types is called (main.c:408).
AnalyzeRoles ==
    /\ drv_pc = "collect"
    /\ \E err \in {0, 1} :
        /\ stage_error' = [s \in DOMAIN stage_error \cup {"roles"} |->
                              IF s = "roles" THEN err ELSE stage_error[s]]
    /\ drv_pc' = "types"
    /\ ran' = ran \cup {"roles"}
    /\ UNCHANGED <<exit_code, file_module, scanned, ast_refs, file_scope, private_scope,
                   public_scope, extern_symbols, functions, drv_diags, add_global_ret>>
    /\ UNCHANGED notDrvVars

\* main.c:391-411: analyze_types is called, then both error flags are tested.
AnalyzeTypes ==
    /\ drv_pc = "types"
    /\ \E err \in {0, 1} :
        /\ stage_error' = [s \in DOMAIN stage_error \cup {"types"} |->
                              IF s = "types" THEN err ELSE stage_error[s]]
        /\ IF stage_error["roles"] # 0 \/ err # 0
           THEN drv_pc' = "exit" /\ exit_code' = -1
           ELSE drv_pc' = "affine" /\ exit_code' = exit_code
    /\ ran' = ran \cup {"types"}
    /\ UNCHANGED <<file_module, scanned, ast_refs, file_scope, private_scope,
                   public_scope, extern_symbols, functions, drv_diags, add_global_ret>>
    /\ UNCHANGED notDrvVars

\* main.c:422-437: check_substructural_types; a non-zero result returns -1.
CheckSubstructural ==
    /\ drv_pc = "affine"
    /\ \E err \in {0, 1} :
        /\ stage_error' = [s \in DOMAIN stage_error \cup {"affine"} |->
                              IF s = "affine" THEN err ELSE stage_error[s]]
        /\ IF err # 0
           THEN drv_pc' = "exit" /\ exit_code' = -1
           ELSE drv_pc' = "lower" /\ exit_code' = exit_code
    /\ ran' = ran \cup {"affine"}
    /\ UNCHANGED <<file_module, scanned, ast_refs, file_scope, private_scope,
                   public_scope, extern_symbols, functions, drv_diags, add_global_ret>>
    /\ UNCHANGED notDrvVars

\* main.c:439-448: tir_to_mir.
TirToMir ==
    /\ drv_pc = "lower"
    /\ drv_pc' = "gen"
    /\ ran' = ran \cup {"lower"}
    /\ UNCHANGED <<file_module, scanned, ast_refs, file_scope, private_scope,
                   public_scope, extern_symbols, functions, drv_diags, add_global_ret,
                   stage_error, exit_code>>
    /\ UNCHANGED notDrvVars

\* main.c:449-465: code generation, then main falls off its end (returns 0).
Gen ==
    /\ drv_pc = "gen"
    /\ drv_pc' = "exit"
    /\ ran' = ran \cup {"gen"}
    /\ exit_code' = 0
    /\ UNCHANGED <<file_module, scanned, ast_refs, file_scope, private_scope,
                   public_scope, extern_symbols, functions, drv_diags, add_global_ret,
                   stage_error>>
    /\ UNCHANGED notDrvVars

DrvNext == Parse \/ AddGlobal \/ AnalyzeRoles \/ AnalyzeTypes \/ CheckSubstructural
           \/ TirToMir \/ Gen

SpecDriver == DrvInit /\ [][DrvNext]_vars

\* An error has been recorded by a stage that ran, or printed by add_global.
ErrorRecorded ==
    \/ \E s \in DOMAIN stage_error : stage_error[s] # 0
    \/ \E d \in drv_diags : d \in {"ERROR_MULTIPLE_DEFINITION", "ERROR_MULTIPLE_EXTERN_DEFINITION"}

\* C2: the pipeline is gated stage by stage: type elaboration has never run
\* when role analysis recorded an error, and MIR lowering and code generation
\* have never run when any error was recorded.
C2_StageGating ==
    /\ ("types" \in ran /\ "roles" \in DOMAIN stage_error) => stage_error["roles"] = 0
    /\ (ran \cap {"lower", "gen"} # {}) => ~ErrorRecorded

\* Two scanned top-level nodes clash: the name is a built-in, or both are
\* extern symbols, or the earlier one sits in a scope the later one sees (an
\* import in the same file, anything else in the same module).
NameClash ==
    \E j \in DOMAIN scanned :
        \/ scanned[j].name \in BuiltinNames
        \/ \E i \in 1 .. (j - 1) :
              /\ scanned[i].name = scanned[j].name
              /\ \/ scanned[i].kind = "AST_EXTERN_FUNCTION" /\ scanned[j].kind = "AST_EXTERN_FUNCTION"
                 \/ scanned[i].kind = "AST_IMPORT" /\ scanned[i].file = scanned[j].file
                 \/ scanned[i].kind # "AST_IMPORT"
                      /\ file_module[scanned[i].file] = file_module[scanned[j].file]

\* C3: a duplicate top-level definition is reported with
\* ERROR_MULTIPLE_DEFINITION or ERROR_MULTIPLE_EXTERN_DEFINITION, and the
\* compilation ends in failure without ever reaching code generation.
C3_DuplicateRejected ==
    NameClash =>
        /\ drv_diags \cap {"ERROR_MULTIPLE_DEFINITION", "ERROR_MULTIPLE_EXTERN_DEFINITION"} # {}
        /\ "gen" \notin ran
        /\ drv_pc = "exit" => exit_code = -1

(***************************************************************************)
(* 2. Role analysis: role-analysis.c                                       *)
(***************************************************************************)
\* Names of the global definitions of the programs analysed.
RoleNames == {"A", "S", "T"}

\* Every name a scope can hold: globals, modules, the built-in type, and the
\* names of locals (type parameter T, parameter a).
AllNames == RoleNames \cup {"m0", "m1", "i32", "a"}

Roles == {"ROLE_NOT_VISITED", "ROLE_VISITING", "ROLE_INVALID", "ROLE_TYPE",
          "ROLE_TAG_TYPE", "ROLE_VALUE", "ROLE_MODULE", "ROLE_BUILTIN_MACRO",
          "ROLE_MACRO", "ROLE_MULTIVALUE"}

\* What a read of local-table memory that was never written may yield: the
\* zero byte of a fresh page, or any other role.
UninitRoles == {"ROLE_NOT_VISITED", "ROLE_INVALID", "ROLE_TYPE", "ROLE_VALUE"}

\* The AST nodes of definition d: the definition itself, its type parameter,
\* its parameter, the type (or initialiser) expression, the module operand of
\* a qualified name, the identifier of the body and the body's statement.
NodeParts == {"def", "tparam", "param", "type", "qual", "body", "stmt"}

\* The shapes a definition may have:
\*   struct N[tparam] { f ref }      const N = ref      function N(a i32) { a }
DefShapes ==
    [kind : {"AST_STRUCT"}, tparam : {"", "T"}, ref : RoleNames \cup {"i32"}]
    \cup [kind : {"AST_CONST"}, tparam : {""}, ref : RoleNames \cup {"i32"}]
    \cup [kind : {"AST_FUNCTION"}, tparam : {""}, ref : {"i32"}]

\* Where the definitions live: all in file 0, or A in file 0 (module m0) and
\* the others in file 1 (module m1); with two files each imports the other.
FilePlacements ==
    {[n \in RoleNames |-> 0], [n \in RoleNames |-> IF n = "A" THEN 0 ELSE 1]}

ModuleName(m) == IF m = 0 THEN "m0" ELSE "m1"

Orderings == {o \in [1 .. Cardinality(RoleNames) -> RoleNames] :
                 \A i, j \in DOMAIN o : i # j => o[i] # o[j]}

\* The accepted definitions (ast_refs) of a program, as add_global leaves them:
\* file by file, in the order written.  A name defined in the other file is
\* written qualified (m1.S).
FileDefs(ord, place, shape, f) ==
    LET two == \E n \in RoleNames : place[n] # 0
        here == SelectSeq(ord, LAMBDA n : place[n] = f)
        imp == [name |-> ModuleName(1 - f), file |-> f, kind |-> "AST_IMPORT",
                tparam |-> "", ref |-> "", qual |-> FALSE]
        def(n) == [name |-> n, file |-> f, kind |-> shape[n].kind,
                   tparam |-> shape[n].tparam, ref |-> shape[n].ref,
                   qual |-> (shape[n].ref \in RoleNames /\ place[shape[n].ref] # f)]
    IN (IF two THEN <<imp>> ELSE <<>>) \o [i \in 1 .. Len(here) |-> def(here[i])]

BuildAsts(ord, place, shape) ==
    FileDefs(ord, place, shape, 0) \o FileDefs(ord, place, shape, 1)

\* The program the running compilation works on.
Prog == r_asts[IF r_pass = 2 THEN 2 ELSE 1]

DefIds == 0 .. (Len(Prog) - 1)

Def(d) == Prog[d + 1]

RoleFiles == {0, 1}

\* b.functions as add_global leaves it: the function definitions in order.
RoleFunctions == SelectSeq([i \in 1 .. Len(Prog) |-> i - 1],
                           LAMBDA d : Def(d).kind = "AST_FUNCTION")

\* lookup() of role-analysis.c:51-75 over the scopes add_global filled: the
\* imports of the file, then the definitions of the file's module (files[f]
\* is module f), then the built-ins.
RoleLookup(file, name) ==
    LET imports == {d \in DefIds : Def(d).kind = "AST_IMPORT" /\ Def(d).file = file
                                   /\ Def(d).name = name}
        module == {d \in DefIds : Def(d).kind # "AST_IMPORT" /\ Def(d).file = file
                                  /\ Def(d).name = name}
    IN IF imports # {} THEN [kind |-> "SYM_GLOBAL", id |-> CHOOSE d \in imports : TRUE]
       ELSE IF module # {} THEN [kind |-> "SYM_GLOBAL", id |-> CHOOSE d \in module : TRUE]
       ELSE IF name = "i32" THEN [kind |-> "SYM_BUILTIN", id |-> 0]
       ELSE [kind |-> "SYM_UNDEFINED", id |-> 0]

\* htable_lookup(&c->modules[module].public_scope, name): every definition of
\* these programs is public.
PublicLookup(module, name) ==
    LET found == {d \in DefIds : Def(d).kind # "AST_IMPORT" /\ Def(d).file = module
                                 /\ Def(d).name = name}
    IN IF found = {} THEN NoEntry ELSE CHOOSE d \in found : TRUE

\* Context c = {0} with the allocations of analyze_roles (879-898): arena
\* memory is zeroed, every local table starts with one dummy entry.
InitContext(n) ==
    [rir_refs |-> [d \in 0 .. (n - 1) |-> "ROLE_NOT_VISITED"],
     locals |-> [f \in RoleFiles |-> <<[role |-> "ROLE_NOT_VISITED", node |-> <<0, "def">>]>>],
     scopes |-> [d \in 0 .. (n - 1) |-> [x \in AllNames |-> 0]],
     scope |-> 0,
     order |-> <<>>,
     error |-> 0,
     diags |-> {},
     rir |-> [nd \in (0 .. (n - 1)) \X NodeParts |-> [tag |-> "RIR_ROOT", data |-> 0]]]

\* set_rir (126-129).
SetRir(c, node, tag, data) == [c EXCEPT !.rir[node] = [tag |-> tag, data |-> data]]

\* diagnostic (82-94): print and set c->error.
Diagnostic(c, node, kind) ==
    [c EXCEPT !.diags = @ \cup {<<kind, node>>}, !.error = 1]

\* print_diagnostic alone: a note that does not touch c->error.
PrintNote(c, node, kind) == [c EXCEPT !.diags = @ \cup {<<kind, node>>}]

\* lookup_local (96-104): c->scope and its parents; the scope of a definition
\* has no parent.  0 means "not a local".
LookupLocal(c, name) == c.scopes[c.scope][name]

\* find_symbol (106-112).
FindSymbol(c, file, name) ==
    IF LookupLocal(c, name) # 0
    THEN [kind |-> "SYM_LOCAL", id |-> LookupLocal(c, name)]
    ELSE RoleLookup(file, name)

\* c->local_ast_refs[file].ptr[id].role: entries past len are malloc'ed memory
\* never written (util.c vec_grow), whose content is `uninit`.
LocalRole(c, file, id, uninit) ==
    IF id < Len(c.locals[file]) THEN c.locals[file][id + 1].role ELSE uninit

\* add_local (131-169).
AddLocal(c, node, name, role) ==
    LET file == Def(node[1]).file
        prev == FindSymbol(c, file, name)
        sym == Len(c.locals[file])
    IN IF prev.kind # "SYM_UNDEFINED"
       THEN PrintNote(Diagnostic(c, node, "ERROR_MULTIPLE_DEFINITION"), node,
                      IF prev.kind = "SYM_BUILTIN" THEN "NOTE_PREVIOUS_BUILTIN_DEFINITION"
                      ELSE "NOTE_PREVIOUS_DEFINITION")
       ELSE [c EXCEPT !.locals[file] = Append(@, [role |-> role, node |-> node]),
                      !.scopes[c.scope][name] = sym,
                      !.rir[node].data = sym]

\* The activation of analyze_def on `def`: called and not yet run ("call"),
\* suspended in the resolve_global of its module operand ("wait_operand") or
\* of the definition it names ("wait_target"), or with its Result computed
\* and lines 322-327 still to run ("done").
Frame(def, pos, result) == [def |-> def, pos |-> pos, result |-> result]

NoResult == [role |-> "", tag |-> "", data |-> 0]

\* The node of definition d being resolved while d waits in position pos.
PendingNode(d, pos) == IF pos = "wait_operand" THEN <<d, "qual">> ELSE <<d, "type">>

\* resolve_global (371-381) after its call of analyze_def(global) returned
\* ret.  c->order is never NULL.
ResolveGlobal(c, node, global, ret) ==
    LET c1 == IF ret = 1 THEN Diagnostic(c, node, "NOTE_RECURSION") ELSE c
    IN IF c1.rir_refs[global] = "ROLE_MODULE"
       THEN [c |-> SetRir(c1, node, "RIR_GLOBAL_ID", c1.rir[<<global, "def">>].data),
             role |-> "ROLE_MODULE", call |-> NoEntry]
       ELSE [c |-> SetRir(c1, node, "RIR_GLOBAL_ID", global),
             role |-> c1.rir_refs[global], call |-> NoEntry]

\* analyze_id (383-444) on the identifier `name` at `node`, up to its call of
\* resolve_global: the role found, or the global definition to resolve.
AnalyzeId(c, node, name, uninit) ==
    LET file == Def(node[1]).file
        local == LookupLocal(c, name)
        info_role == LocalRole(c, file, local, uninit)
        symbol == RoleLookup(file, name)
    IN IF local # 0
       THEN IF info_role = "ROLE_INVALID"
            THEN [c |-> c, role |-> "ROLE_INVALID", call |-> NoEntry]
            ELSE [c |-> SetRir(c, node, "RIR_LOCAL_ID", local), role |-> info_role,
                  call |-> NoEntry]
       ELSE IF symbol.kind = "SYM_UNDEFINED"
       THEN [c |-> AddLocal(Diagnostic(c, node, "ERROR_UNDEFINED_NAME"), node, name,
                            "ROLE_INVALID"),
             role |-> "ROLE_INVALID", call |-> NoEntry]
       ELSE IF symbol.kind = "SYM_BUILTIN"
       THEN [c |-> SetRir(c, node, "RIR_BUILTIN_ID", symbol.id), role |-> "ROLE_TYPE",
             call |-> NoEntry]
       ELSE [c |-> c, role |-> "", call |-> symbol.id]

\* analyze_module_id (538-560) up to its call of resolve_global: `module` is
\* the datum of the operand node.
AnalyzeModuleId(c, node, name) ==
    LET module == c.rir[<<node[1], "qual">>].data
        def_ptr == PublicLookup(module, name)
    IN IF def_ptr = NoEntry
       THEN [c |-> Diagnostic(c, node, "ERROR_UNDEFINED_NAME_FROM_MODULE"),
             role |-> "ROLE_INVALID", call |-> NoEntry]
       ELSE [c |-> c, role |-> "", call |-> def_ptr]

\* analyze_access (562-578) once the operand has role operand_role.
AnalyzeAccess(c, node, name, operand_role) ==
    CASE operand_role = "ROLE_INVALID" -> [c |-> c, role |-> "ROLE_INVALID", call |-> NoEntry]
      [] operand_role = "ROLE_MODULE" -> AnalyzeModuleId(c, node, name)
      [] operand_role = "ROLE_TYPE" ->
             [c |-> SetRir(c, node, "RIR_SCOPE_ACCESS", 0), role |-> "ROLE_VALUE",
              call |-> NoEntry]
      [] operand_role = "ROLE_VALUE" ->
             [c |-> SetRir(c, node, "RIR_TYPE_ACCESS", 0), role |-> "ROLE_VALUE",
              call |-> NoEntry]
      [] OTHER -> [c |-> Diagnostic(c, node, "ERROR_ACCESS_OPERAND_ROLE"),
                   role |-> "ROLE_INVALID", call |-> NoEntry]

\* expect_type (178-187) once the expression has role `role`.
ExpectType(c, d, role) ==
    IF role \in {"ROLE_NOT_VISITED", "ROLE_VISITING", "ROLE_INVALID", "ROLE_TYPE",
                 "ROLE_TAG_TYPE"}
    THEN c
    ELSE Diagnostic(c, <<d, "type">>, "ERROR_EXPECTED_TYPE")

\* analyze_import (205-215): the module named is a module of the program.
AnalyzeImport(c, d) ==
    [c |-> c, role |-> "ROLE_MODULE", tag |-> "RIR_ROOT",
     data |-> IF Def(d).name = "m0" THEN 0 ELSE 1]

\* analyze_function_decl (222-236) after analyze_node gave the parameter's
\* type role: one parameter `a`, no return type.
AnalyzeFunctionDecl(c, d, role) ==
    [c |-> AddLocal(ExpectType(c, d, role), <<d, "param">>, "a", "ROLE_VALUE"),
     role |-> "ROLE_VALUE", tag |-> "RIR_FUNCTION", data |-> 0]

\* analyze_struct (238-247) after analyze_node gave the field's type role.
AnalyzeStruct(c, d, role) ==
    [c |-> ExpectType(c, d, role), role |-> "ROLE_TYPE", tag |-> "RIR_STRUCT", data |-> 0]

\* analyze_const (261-281) after analyze_node gave the initialiser's role.
AnalyzeConst(c, d, role) ==
    CASE role \in {"ROLE_INVALID", "ROLE_BUILTIN_MACRO", "ROLE_MACRO"} ->
             [c |-> c, role |-> role, tag |-> "RIR_ROOT", data |-> 0]
      [] role = "ROLE_TYPE" -> [c |-> c, role |-> role, tag |-> "RIR_TYPE_ALIAS", data |-> 0]
      [] role = "ROLE_VALUE" -> [c |-> c, role |-> role, tag |-> "RIR_CONST", data |-> 0]
      [] OTHER -> [c |-> Diagnostic(c, <<d, "def">>, "ERROR_CONST_INIT"),
                   role |-> "ROLE_INVALID", tag |-> "RIR_ROOT", data |-> 0]

\* The switch of analyze_def (311-321) from the point where the expression of
\* definition d has its role.
AnalyzeDecl(c, d, role) ==
    CASE Def(d).kind = "AST_FUNCTION" -> AnalyzeFunctionDecl(c, d, role)
      [] Def(d).kind = "AST_STRUCT" -> AnalyzeStruct(c, d, role)
      [] Def(d).kind = "AST_CONST" -> AnalyzeConst(c, d, role)

\* Definition d goes on from step r of its expression to its next call of
\* analyze_def, or to its Result: [c, frames], the frames replacing d's own.
Proceed(c, d, pos, r) ==
    LET acc == IF pos = "wait_operand" /\ r.call = NoEntry
               THEN AnalyzeAccess(r.c, <<d, "type">>, Def(d).ref, r.role)
               ELSE r
        pos2 == IF pos = "wait_operand" /\ r.call = NoEntry THEN "wait_target" ELSE pos
        res == AnalyzeDecl(acc.c, d, acc.role)
    IN IF acc.call # NoEntry
       THEN [c |-> acc.c,
             frames |-> <<Frame(d, pos2, NoResult), Frame(acc.call, "call", NoResult)>>]
       ELSE [c |-> res.c,
             frames |-> <<Frame(d, "done", [role |-> res.role, tag |-> res.tag,
                                            data |-> res.data])>>]

\* analyze_def(global) returned ret to the resolve_global suspended in the
\* top frame of `stack` (none when the top-level loop made the call).
Resume(c, stack, global, ret) ==
    IF stack = <<>> THEN [c |-> c, stack |-> <<>>]
    ELSE LET f == stack[Len(stack)]
             r == ResolveGlobal(c, PendingNode(f.def, f.pos), global, ret)
             p == Proceed(r.c, f.def, f.pos, r)
         IN [c |-> p.c, stack |-> SubSeq(stack, 1, Len(stack) - 1) \o p.frames]

\* analyze_def (299-321) from its entry to its first call of analyze_def or
\* to its Result.
AnalyzeDefEnter(c, stack, uninit) ==
    LET def == stack[Len(stack)].def
        rest == SubSeq(stack, 1, Len(stack) - 1)
        prev_role == c.rir_refs[def]
        cv == [c EXCEPT !.rir_refs[def] = "ROLE_VISITING"]
        imp == AnalyzeImport(cv, def)
        c1 == IF Def(def).tparam # ""
              THEN AddLocal(cv, <<def, "tparam">>, Def(def).tparam, "ROLE_TYPE") ELSE cv
        first == IF Def(def).qual
                 THEN AnalyzeId(c1, <<def, "qual">>, ModuleName(1 - Def(def).file), uninit)
                 ELSE AnalyzeId(c1, <<def, "type">>, Def(def).ref, uninit)
        p == Proceed(first.c, def, IF Def(def).qual THEN "wait_operand" ELSE "wait_target",
                     first)
    IN IF prev_role \notin {"ROLE_NOT_VISITED", "ROLE_VISITING"}
       THEN Resume(c, rest, def, 0)
       ELSE IF prev_role = "ROLE_VISITING"
       THEN Resume(Diagnostic(c, <<def, "def">>, "ERROR_RECURSIVE_DEPENDENCY"), rest, def, 1)
       ELSE IF Def(def).kind = "AST_IMPORT"
       THEN [c |-> imp.c,
             stack |-> Append(rest, Frame(def, "done", [role |-> imp.role, tag |-> imp.tag,
                                                        data |-> imp.data]))]
       ELSE [c |-> p.c, stack |-> rest \o p.frames]

\* analyze_def 322-327, and the return to the caller.
AnalyzeDefExit(c, stack) ==
    LET f == stack[Len(stack)]
        c1 == SetRir([c EXCEPT !.rir_refs[f.def] = f.result.role],
                     <<f.def, "def">>, f.result.tag, f.result.data)
        c2 == IF f.result.role # "ROLE_INVALID"
              THEN [c1 EXCEPT !.order = Append(@, f.def)] ELSE c1
    IN Resume(c2, SubSeq(stack, 1, Len(stack) - 1), f.def, 0)

\* analyze_block (703-718) with implicit_ret false on the body `{ a }`:
\* analyze_expression_statement (785-801).  `a` names no global.
AnalyzeBody(c, d, uninit) ==
    LET r == AnalyzeId(c, <<d, "body">>, "a", uninit)
    IN CASE r.role = "ROLE_TYPE" -> SetRir(r.c, <<d, "stmt">>, "RIR_TYPE_STATEMENT", 0)
         [] r.role \in {"ROLE_VALUE", "ROLE_MULTIVALUE"} ->
                SetRir(r.c, <<d, "stmt">>, "RIR_VALUE_STATEMENT", 0)
         [] OTHER -> r.c

\* What a compilation hands on, with ids replaced by what they denote so that
\* two compilations can be compared: a definition id by the definition's
\* name, a local id by the node that declared the local.
DefName(d) == Def(d).name

NamedNode(node) == <<DefName(node[1]), node[2]>>

NamedLocal(c, file, id) ==
    IF id = 0 THEN <<"none">>
    ELSE IF id < Len(c.locals[file]) THEN NamedNode(c.locals[file][id + 1].node)
    ELSE <<"unallocated">>

NamedRir(c, node) ==
    LET e == c.rir[node]
        file == Def(node[1]).file
    IN CASE e.tag = "RIR_GLOBAL_ID" /\ node[2] # "qual" ->
                [tag |-> e.tag, data |-> <<DefName(e.data)>>]
         [] e.tag = "RIR_LOCAL_ID" \/ (e.tag = "RIR_ROOT" /\ node[2] \in {"tparam", "param", "body"}) ->
                [tag |-> e.tag, data |-> NamedLocal(c, file, e.data)]
         [] OTHER -> [tag |-> e.tag, data |-> <<e.data>>]

RoleOutput(c) ==
    [error |-> c.error,
     kinds |-> {dg[1] : dg \in c.diags},
     order |-> [i \in 1 .. Len(c.order) |-> DefName(c.order[i])],
     rir |-> [nn \in {NamedNode(nd) : nd \in DefIds \X NodeParts} |->
                 NamedRir(c, CHOOSE nd \in DefIds \X NodeParts : NamedNode(nd) = nn)]]

\* The programs compared: the same definitions in the same files, written in
\* one order and in the reverse order.
RoleInit ==
    /\ \E ord \in Orderings, place \in FilePlacements, shape \in [RoleNames -> DefShapes] :
          r_asts = <<BuildAsts(ord, place, shape), BuildAsts(Reverse(ord), place, shape)>>
    /\ r_pass = 1
    /\ r_i = 0
    /\ r_j = 0
    /\ r_ctx = InitContext(Len(r_asts[1]))
    /\ r_stack = <<>>
    /\ r_out = <<>>
    /\ DrvIdle /\ LowerIdle /\ LinIdle /\ TypeIdle /\ ExprIdle

\* analyze_roles 899-903: the next iteration of the loop over the definitions
\* sets c.scope and calls analyze_def.
RoleTopStep ==
    /\ r_pass \in {1, 2}
    /\ r_stack = <<>>
    /\ r_i < Len(Prog)
    /\ r_ctx' = [r_ctx EXCEPT !.scope = r_i]
    /\ r_stack' = <<Frame(r_i, "call", NoResult)>>
    /\ r_i' = r_i + 1
    /\ UNCHANGED <<r_asts, r_pass, r_j, r_out>>
    /\ UNCHANGED notRoleVars

\* analyze_def runs from its entry to its next call of analyze_def, or to its
\* Result, or returns at once (visited, or ERROR_RECURSIVE_DEPENDENCY).
AnalyzeDefCall ==
    /\ r_stack # <<>>
    /\ r_stack[Len(r_stack)].pos = "call"
    /\ \E uninit \in UninitRoles :
          LET n == AnalyzeDefEnter(r_ctx, r_stack, uninit)
          IN r_ctx' = n.c /\ r_stack' = n.stack
    /\ UNCHANGED <<r_asts, r_pass, r_i, r_j, r_out>>
    /\ UNCHANGED notRoleVars

\* analyze_def stores its Result and returns 0; its caller goes on.
AnalyzeDefReturn ==
    /\ r_stack # <<>>
    /\ r_stack[Len(r_stack)].pos = "done"
    /\ LET n == AnalyzeDefExit(r_ctx, r_stack)
       IN r_ctx' = n.c /\ r_stack' = n.stack
    /\ UNCHANGED <<r_asts, r_pass, r_i, r_j, r_out>>
    /\ UNCHANGED notRoleVars

\* analyze_roles 904-910: one iteration of the loop over the function bodies.
RoleBodyStep ==
    /\ r_pass \in {1, 2}
    /\ r_stack = <<>>
    /\ r_i = Len(Prog)
    /\ r_j < Len(RoleFunctions)
    /\ \E uninit \in UninitRoles :
          r_ctx' = AnalyzeBody([r_ctx EXCEPT !.scope = RoleFunctions[r_j + 1]],
                               RoleFunctions[r_j + 1], uninit)
    /\ r_j' = r_j + 1
    /\ UNCHANGED <<r_asts, r_pass, r_i, r_stack, r_out>>
    /\ UNCHANGED notRoleVars

\* analyze_roles 911-920: return the output; the second compilation starts.
RoleReturn ==
    /\ r_pass \in {1, 2}
    /\ r_stack = <<>>
    /\ r_i = Len(Prog)
    /\ r_j = Len(RoleFunctions)
    /\ r_out' = Append(r_out, RoleOutput(r_ctx))
    /\ r_pass' = r_pass + 1
    /\ r_i' = 0
    /\ r_j' = 0
    /\ r_ctx' = InitContext(Len(r_asts[2]))
    /\ UNCHANGED <<r_asts, r_stack>>
    /\ UNCHANGED notRoleVars

RoleNext == RoleTopStep \/ AnalyzeDefCall \/ AnalyzeDefReturn \/ RoleBodyStep \/ RoleReturn

SpecRoles == RoleInit /\ [][RoleNext]_vars

\* The definitions the declaration of `def` references, by name: the
\* definition its type or initialiser names, and the import it goes through.
DeclRefs(def) ==
    (IF def.ref \in RoleNames THEN {def.ref} ELSE {})
    \cup (IF def.qual THEN {ModuleName(1 - def.file)} ELSE {})

DefNamed(prog, n) == prog[CHOOSE i \in DOMAIN prog : prog[i].name = n]

\* n reaches m through at least one declaration-level reference.
RECURSIVE Reaches(_, _, _, _)
Reaches(prog, n, m, fuel) ==
    /\ fuel > 0
    /\ \E x \in DeclRefs(DefNamed(prog, n)) : x = m \/ Reaches(prog, x, m, fuel - 1)

HasCycle(prog) == \E i \in DOMAIN prog : Reaches(prog, prog[i].name, prog[i].name, Len(prog))

\* C6: in the order vector of a compilation that reported no error, every
\* definition that a declaration references stands before the definition
\* referencing it, whatever the order the definitions were written in.
C6_TopologicalOrder ==
    \A k \in DOMAIN r_out :
        r_out[k].error = 0 =>
            \A i \in DOMAIN r_out[k].order :
                \A n \in DeclRefs(DefNamed(r_asts[k], r_out[k].order[i])) :
                    \E j \in 1 .. (i - 1) : r_out[k].order[j] = n

\* C7: cycle detection is exact: in a compilation with no other error,
\* ERROR_RECURSIVE_DEPENDENCY (with NOTE_RECURSION) is reported when the
\* declaration-level reference graph of the program has a cycle, and only then.
C7_CycleDetectionExact ==
    \A k \in DOMAIN r_out :
        (r_out[k].kinds \subseteq {"ERROR_RECURSIVE_DEPENDENCY", "NOTE_RECURSION"}) =>
            /\ HasCycle(r_asts[k]) <=> "ERROR_RECURSIVE_DEPENDENCY" \in r_out[k].kinds
            /\ "ERROR_RECURSIVE_DEPENDENCY" \in r_out[k].kinds
                  => "NOTE_RECURSION" \in r_out[k].kinds

\* C8: every AST node gets the same (RIR tag, datum) whichever way its
\* definition is first visited (by the top-level loop, or through
\* resolve_global from a definition written before it): two compilations of
\* the same definitions, one of which reports no error, agree on every node.
C8_RoleDeterminism ==
    (r_pass = 3 /\ (r_out[1].error = 0 \/ r_out[2].error = 0))
        => r_out[1].rir = r_out[2].rir

(***************************************************************************)
(* 3. TIR -> MIR lowering of one function: tir2mir.c                       *)
(***************************************************************************)
\* Statements lowered per function, nesting depth of if/loop, switch arms.
MaxStmts == 4
MaxDepth == 2
MaxBranches == 2

\* is_mir_terminator (data/mir.h:39-49).
IsMirTerminator(tag) ==
    tag \in {"MIR_BR", "MIR_BR_IF", "MIR_BR_IF_NOT", "MIR_RET_VOID", "MIR_RET"}

Inst(tag) == [tag |-> tag, index |-> 0]

\* last_is_terminator (324-326); instruction ids count from 1 here.
LastIsTerminator(mir, last_br) ==
    Len(mir) > last_br /\ IsMirTerminator(mir[Len(mir)].tag)

\* patch_br left out: the instruction keeps the index it was created with.
PatchNothing(mir, brs, basic_block) == mir

\* patch_br (95-97) applied to every instruction of `brs`.
PatchBr(mir, brs, basic_block) ==
    [i \in DOMAIN mir |-> IF i \in brs THEN [mir[i] EXCEPT !.index = basic_block]
                          ELSE mir[i]]

InLoop == \E i \in DOMAIN l_frames : l_frames[i].kind = "loop"

\* One construct lowered: `br` is the conditional branch of an if or a loop,
\* or the branch of a break or a continue, whose innermost enclosing loop has
\* the conditional branch `loop`; body_last is the last instruction of the
\* true block or of the loop body, false_first .. false_last the false block,
\* next_first the first instruction of the next-step of a loop that has one
\* (0 otherwise), `last` the last instruction of the construct.
Lowered(kind, br, loop, true_br, false_br, body_last, false_first, false_last, next_first,
        last) ==
    [kind |-> kind, br |-> br, loop |-> loop, true_br |-> true_br, false_br |-> false_br,
     body_last |-> body_last, false_first |-> false_first, false_last |-> false_last,
     next_first |-> next_first, last |-> last]

\* The conditional branch of the innermost loop being lowered.
InnermostLoop ==
    l_frames[CHOOSE i \in DOMAIN l_frames :
                 /\ l_frames[i].kind = "loop"
                 /\ \A j \in DOMAIN l_frames : l_frames[j].kind = "loop" => j <= i].condition_br

NoSwitch == [active |-> FALSE]

\* transform_node is about to be called on a further statement of the current
\* block (the loops at 340, 352, 457, 535).
CanLower == l_pc = "body" /\ l_stmts < MaxStmts /\ ~l_closed /\ ~l_switch.active

\* The loop over the statements of the current block has ended.
BlockEnds == l_pc = "body" /\ ~l_switch.active

\* transform_function 522-533: the MIR_PARAM instructions; Context c = {0}.
LowerInit ==
    /\ l_void \in BOOLEAN
    /\ \E params \in {0, 1} :
          /\ l_mir = [i \in 1 .. params |-> Inst("MIR_PARAM")]
          /\ l_start = params
    /\ l_basic_block = 0
    /\ l_frames = <<>>
    /\ l_breaks = <<>>
    /\ l_continues = <<>>
    /\ l_switch = NoSwitch
    /\ l_closed = FALSE
    /\ l_stmts = 0
    /\ l_pc = "body"
    /\ l_done = <<>>
    /\ DrvIdle /\ RoleIdle /\ LinIdle /\ TypeIdle /\ ExprIdle

\* transform_value_statement (516-520) on a call: one instruction.
TransformValueStatement ==
    /\ CanLower
    /\ l_mir' = Append(l_mir, Inst("MIR_CALL"))
    /\ l_stmts' = l_stmts + 1
    /\ UNCHANGED <<l_void, l_start, l_basic_block, l_frames, l_breaks, l_continues,
                   l_switch, l_closed, l_pc>>
    /\ UNCHANGED l_done
    /\ UNCHANGED notLowerVars

\* transform_if 328-342: the condition (a variable: no instruction), the
\* conditional branch; the statements of the true block follow.
TransformIfBegin ==
    /\ CanLower
    /\ Len(l_frames) < MaxDepth
    /\ l_mir' = Append(l_mir, Inst("MIR_BR_IF_NOT"))
    /\ l_basic_block' = l_basic_block + 1
    /\ l_frames' = Append(l_frames, [kind |-> "if_true", condition_br |-> Len(l_mir) + 1,
                                     true_br |-> 0, false_basic_block |-> 0,
                                     true_closed |-> FALSE, true_last |-> 0])
    /\ l_stmts' = l_stmts + 1
    /\ UNCHANGED <<l_void, l_start, l_breaks, l_continues, l_switch, l_closed, l_pc>>
    /\ UNCHANGED l_done
    /\ UNCHANGED notLowerVars

\* transform_if 344-355: the true block is over; the statements of the false
\* block (none when there is no else) follow.
TransformIfElse ==
    /\ BlockEnds
    /\ l_frames # <<>>
    /\ l_frames[Len(l_frames)].kind = "if_true"
    /\ LET f == l_frames[Len(l_frames)]
           add == ~LastIsTerminator(l_mir, f.condition_br)
           mir1 == IF add THEN Append(l_mir, Inst("MIR_BR")) ELSE l_mir
           bb1 == IF add THEN l_basic_block + 1 ELSE l_basic_block
       IN /\ l_mir' = mir1
          /\ l_basic_block' = bb1
          /\ l_frames' = [l_frames EXCEPT ![Len(l_frames)] =
                            [f EXCEPT !.kind = "if_false",
                                      !.true_br = IF add THEN Len(mir1) ELSE f.condition_br,
                                      !.false_basic_block = bb1,
                                      !.true_closed = l_closed,
                                      !.true_last = Len(l_mir)]]
    /\ l_closed' = FALSE
    /\ UNCHANGED <<l_void, l_start, l_breaks, l_continues, l_switch, l_stmts, l_pc>>
    /\ UNCHANGED l_done
    /\ UNCHANGED notLowerVars

\* transform_if 357-374: the false block is over; the branches are patched.
TransformIfEnd ==
    /\ BlockEnds
    /\ l_frames # <<>>
    /\ l_frames[Len(l_frames)].kind = "if_false"
    /\ LET f == l_frames[Len(l_frames)]
           add == ~LastIsTerminator(l_mir, f.true_br)
           mir1 == IF add THEN Append(l_mir, Inst("MIR_BR")) ELSE l_mir
           false_br == IF add THEN Len(mir1) ELSE f.condition_br
           next_basic_block == IF add THEN l_basic_block + 1 ELSE l_basic_block
           mir2 == PatchBr(mir1, {f.condition_br}, f.false_basic_block)
           mir3 == PatchBr(mir2, {f.true_br} \ {f.condition_br}, next_basic_block)
       IN /\ l_mir' = PatchBr(mir3, {false_br} \ {f.condition_br}, next_basic_block)
          /\ l_basic_block' = next_basic_block
          /\ l_closed' = (f.true_closed /\ l_closed)
          /\ l_done' = Append(l_done,
                 Lowered("if", f.condition_br, 0, f.true_br, false_br, f.true_last,
                         (IF f.true_br = f.condition_br THEN f.true_last ELSE f.true_br) + 1,
                         Len(l_mir), 0, Len(mir1)))
    /\ l_frames' = SubSeq(l_frames, 1, Len(l_frames) - 1)
    /\ UNCHANGED <<l_void, l_start, l_breaks, l_continues, l_switch, l_stmts, l_pc>>
    /\ UNCHANGED notLowerVars

\* transform_switch 377-398 on a switch that has a switched value (a
\* variable: no instruction); the result slot of a non-void switch.
TransformSwitchBegin ==
    /\ CanLower
    /\ \E void \in BOOLEAN, branch_count \in 1 .. MaxBranches :
          /\ l_mir' = IF void THEN l_mir ELSE Append(l_mir, Inst("MIR_ALLOC"))
          /\ l_switch' = [active |-> TRUE, void |-> void, switch_ |-> TRUE,
                          left |-> branch_count, br_list |-> {}]
    /\ l_stmts' = l_stmts + 1
    /\ UNCHANGED <<l_void, l_start, l_basic_block, l_frames, l_breaks, l_continues,
                   l_closed, l_pc>>
    /\ UNCHANGED l_done
    /\ UNCHANGED notLowerVars

\* transform_switch 400-430: one iteration of the loop over the branches.  A
\* branch without a pattern (the else branch) leaves the loop.
TransformSwitchBranch ==
    /\ l_pc = "body"
    /\ l_switch.active
    /\ l_switch.left > 0
    /\ \E pattern \in BOOLEAN :
          LET test == IF ~pattern THEN <<>>
                      ELSE <<Inst("MIR_INT")>>
                           \o (IF l_switch.switch_ THEN <<Inst("MIR_EQ")>> ELSE <<>>)
                           \o <<Inst("MIR_BR_IF_NOT")>>
              arm == <<Inst("MIR_CALL")>>
                     \o (IF l_switch.void THEN <<>> ELSE <<Inst("MIR_ASSIGN")>>)
                     \o <<Inst("MIR_BR")>>
              mir1 == l_mir \o test \o arm
              condition_br == Len(l_mir) + Len(test)
              bb1 == l_basic_block + (IF pattern THEN 2 ELSE 1)
          IN /\ l_mir' = IF pattern THEN PatchBr(mir1, {condition_br}, bb1) ELSE mir1
             /\ l_basic_block' = bb1
             /\ l_switch' = [l_switch EXCEPT !.br_list = @ \cup {Len(mir1)},
                                             !.left = IF pattern THEN @ - 1 ELSE 0]
    /\ UNCHANGED <<l_void, l_start, l_frames, l_breaks, l_continues, l_closed, l_stmts,
                   l_pc>>
    /\ UNCHANGED l_done
    /\ UNCHANGED notLowerVars

\* transform_switch 432-436: every arm's branch goes to the block after.
TransformSwitchEnd ==
    /\ l_pc = "body"
    /\ l_switch.active
    /\ l_switch.left = 0
    /\ l_mir' = PatchBr(l_mir, l_switch.br_list, l_basic_block)
    /\ l_switch' = NoSwitch
    /\ UNCHANGED <<l_void, l_start, l_basic_block, l_frames, l_breaks, l_continues,
                   l_closed, l_stmts, l_pc>>
    /\ UNCHANGED l_done
    /\ UNCHANGED notLowerVars

\* transform_loop 439-455: branch into the condition block, the condition (a
\* variable), the conditional exit; the statements of the body follow.
TransformLoopBegin ==
    /\ CanLower
    /\ Len(l_frames) < MaxDepth
    /\ \E next \in BOOLEAN :
          LET entry_br == Len(l_mir) + 1
              condition_basic_block == l_basic_block + 1
          IN /\ l_mir' = PatchBr(Append(l_mir, Inst("MIR_BR")), {entry_br},
                                 condition_basic_block)
                         \o <<Inst("MIR_BR_IF_NOT")>>
             /\ l_basic_block' = l_basic_block + 2
             /\ l_frames' = Append(l_frames,
                    [kind |-> "loop", next |-> next,
                     condition_basic_block |-> condition_basic_block,
                     condition_br |-> entry_br + 1,
                     break_index |-> Len(l_breaks),
                     continue_index |-> Len(l_continues),
                     breaks_in |-> l_breaks, continues_in |-> l_continues])
    /\ l_stmts' = l_stmts + 1
    /\ UNCHANGED <<l_void, l_start, l_breaks, l_continues, l_switch, l_closed, l_pc>>
    /\ UNCHANGED l_done
    /\ UNCHANGED notLowerVars

\* transform_loop 462-486: the body is over.
TransformLoopEnd ==
    /\ BlockEnds
    /\ l_frames # <<>>
    /\ l_frames[Len(l_frames)].kind = "loop"
    /\ LET f == l_frames[Len(l_frames)]
           continue_br == Len(l_mir) + 1
           continue_basic_block == IF f.next THEN l_basic_block + 1
                                   ELSE f.condition_basic_block
           mir1 == IF f.next
                   THEN PatchBr(Append(l_mir, Inst("MIR_BR")), {continue_br},
                                continue_basic_block) \o <<Inst("MIR_CALL")>>
                   ELSE l_mir
           next_iteration_br == Len(mir1) + 1
           exit_basic_block == (IF f.next THEN l_basic_block + 1 ELSE l_basic_block) + 1
           mir2 == PatchBr(Append(mir1, Inst("MIR_BR")), {next_iteration_br},
                           f.condition_basic_block)
           mir3 == PatchBr(mir2, {f.condition_br}, exit_basic_block)
           breaks == {l_breaks[i] : i \in (f.break_index + 1) .. Len(l_breaks)}
           continues == {l_continues[i] : i \in (f.continue_index + 1) .. Len(l_continues)}
       IN /\ l_mir' = PatchBr(PatchBr(mir3, breaks, exit_basic_block), continues,
                              continue_basic_block)
          /\ l_basic_block' = exit_basic_block
          /\ l_breaks' = SubSeq(l_breaks, 1, f.break_index)
          /\ l_continues' = SubSeq(l_continues, 1, f.continue_index)
          /\ l_done' = Append(l_done,
                 Lowered("loop", f.condition_br, 0, 0, 0, Len(l_mir), 0, 0,
                         IF f.next THEN continue_br + 1 ELSE 0, next_iteration_br))
    /\ l_frames' = SubSeq(l_frames, 1, Len(l_frames) - 1)
    /\ l_closed' = FALSE
    /\ UNCHANGED <<l_void, l_start, l_switch, l_stmts, l_pc>>
    /\ UNCHANGED notLowerVars

\* transform_break 489-493; type analysis rejects a break outside a loop
\* (type-analysis.c:2012).
TransformBreak ==
    /\ CanLower
    /\ InLoop
    /\ l_mir' = Append(l_mir, Inst("MIR_BR"))
    /\ l_basic_block' = l_basic_block + 1
    /\ l_breaks' = Append(l_breaks, Len(l_mir) + 1)
    /\ l_done' = Append(l_done, Lowered("break", Len(l_mir) + 1, InnermostLoop, 0, 0, 0, 0, 0, 0,
                                        Len(l_mir) + 1))
    /\ l_closed' = TRUE
    /\ l_stmts' = l_stmts + 1
    /\ UNCHANGED <<l_void, l_start, l_frames, l_continues, l_switch, l_pc>>
    /\ UNCHANGED notLowerVars

\* transform_continue 495-499 (type-analysis.c:2020).
TransformContinue ==
    /\ CanLower
    /\ InLoop
    /\ l_mir' = Append(l_mir, Inst("MIR_BR"))
    /\ l_basic_block' = l_basic_block + 1
    /\ l_continues' = Append(l_continues, Len(l_mir) + 1)
    /\ l_done' = Append(l_done, Lowered("continue", Len(l_mir) + 1, InnermostLoop, 0, 0, 0, 0, 0, 0,
                                        Len(l_mir) + 1))
    /\ l_closed' = TRUE
    /\ l_stmts' = l_stmts + 1
    /\ UNCHANGED <<l_void, l_start, l_frames, l_breaks, l_switch, l_pc>>
    /\ UNCHANGED notLowerVars

\* transform_return 501-514; the operand of a non-void return is a variable.
\* The last statement of a non-void function body is its return
\* (role-analysis.c:706-710), so a return at the top level of one ends the body.
TransformReturn ==
    /\ CanLower
    /\ l_basic_block' = l_basic_block + 1
    /\ l_mir' = Append(l_mir, Inst(IF l_void THEN "MIR_RET_VOID" ELSE "MIR_RET"))
    /\ l_closed' = TRUE
    /\ l_stmts' = l_stmts + 1
    /\ l_pc' = IF ~l_void /\ l_frames = <<>> THEN "last" ELSE l_pc
    /\ UNCHANGED <<l_void, l_start, l_frames, l_breaks, l_continues, l_switch>>
    /\ UNCHANGED l_done
    /\ UNCHANGED notLowerVars

\* transform_function 540-543: the loop over the body has ended.
TransformFunctionEnd ==
    /\ \/ l_void /\ BlockEnds /\ l_frames = <<>>
       \/ l_pc = "last"
    /\ l_mir' = IF l_void /\ (Len(l_mir) = l_start \/ l_mir[Len(l_mir)].tag # "MIR_RET_VOID")
                THEN Append(l_mir, Inst("MIR_RET_VOID"))
                ELSE l_mir
    /\ l_pc' = "done"
    /\ UNCHANGED <<l_void, l_start, l_basic_block, l_frames, l_breaks, l_continues,
                   l_switch, l_closed, l_stmts>>
    /\ UNCHANGED l_done
    /\ UNCHANGED notLowerVars

LowerNext ==
    \/ TransformValueStatement
    \/ TransformIfBegin
    \/ TransformIfElse
    \/ TransformIfEnd
    \/ TransformSwitchBegin
    \/ TransformSwitchBranch
    \/ TransformSwitchEnd
    \/ TransformLoopBegin
    \/ TransformLoopEnd
    \/ TransformBreak
    \/ TransformContinue
    \/ TransformReturn
    \/ TransformFunctionEnd

SpecLower == LowerInit /\ [][LowerNext]_vars

\* The statements that matter to a nest of loops: no switch (its arms are
\* values, a break or continue cannot stand in one).
LoopNext ==
    \/ TransformValueStatement
    \/ TransformIfBegin
    \/ TransformIfElse
    \/ TransformIfEnd
    \/ TransformLoopBegin
    \/ TransformLoopEnd
    \/ TransformBreak
    \/ TransformContinue
    \/ TransformReturn
    \/ TransformFunctionEnd

SpecLoop == LowerInit /\ [][LoopNext]_vars

\* gen_function (gen.c:799-854) opens block k with the label Lk before the
\* instruction that follows the k-th terminator of the function; block 0 is
\* the entry.  BlockOf(i) is the block instruction i is emitted in.
BlockOf(i) == Cardinality({j \in 1 .. (i - 1) : IsMirTerminator(l_mir[j].tag)})

Blocks == {BlockOf(i) : i \in DOMAIN l_mir}

\* gen_br, gen_br_if_not (gen.c:705-719) emit `goto L<index>`.
Branches == {i \in DOMAIN l_mir : l_mir[i].tag \in {"MIR_BR", "MIR_BR_IF_NOT"}}

\* The blocks control can pass to from the end of block b.
Successors(b) ==
    LET last == CHOOSE i \in DOMAIN l_mir :
                    BlockOf(i) = b /\ \A j \in DOMAIN l_mir : BlockOf(j) = b => j <= i
        tag == l_mir[last].tag
    IN IF tag = "MIR_BR" THEN {l_mir[last].index}
       ELSE IF tag = "MIR_BR_IF_NOT" THEN {l_mir[last].index, b + 1}
       ELSE {}

RECURSIVE ReachableBlocks(_)
ReachableBlocks(seen) ==
    LET more == (UNION {Successors(b) : b \in seen}) \cap Blocks
    IN IF more \subseteq seen THEN seen ELSE ReachableBlocks(seen \cup more)

\* C4: once a function is lowered, every branch of it names a block that
\* exists inside the function (one that begins at the function's first
\* instruction or right after a terminator of the function), none past the
\* function's last instruction.
C4_BranchTargetsExist ==
    l_pc = "done" => \A i \in Branches : l_mir[i].index \in Blocks

\* C5: once a function is lowered, every basic block of it can be reached
\* from the entry block, whatever the combination of if, loop, switch, break,
\* continue and return.
C5_AllBlocksReachable ==
    l_pc = "done" => ReachableBlocks({0}) = Blocks

\* The end of the function's MIR: where control is when it runs past the last
\* instruction or jumps to a label that is never emitted.
Off == Len(l_mir) + 1

\* The instruction the label of `basic_block` stands before.
BlockFirst(basic_block) ==
    IF basic_block \in Blocks
    THEN {i \in DOMAIN l_mir :
            BlockOf(i) = basic_block /\ (i = 1 \/ IsMirTerminator(l_mir[i - 1].tag))}
    ELSE {Off}

\* The instructions control can pass to from instruction i (gen.c:705-719).
Flow(i) ==
    IF l_mir[i].tag = "MIR_BR" THEN BlockFirst(l_mir[i].index)
    ELSE IF l_mir[i].tag = "MIR_BR_IF_NOT" THEN BlockFirst(l_mir[i].index) \cup {i + 1}
    ELSE IF l_mir[i].tag \in {"MIR_RET", "MIR_RET_VOID"} THEN {}
    ELSE {i + 1}

\* What an execution standing in `seen` reaches without passing `blocked`.
RECURSIVE FlowFrom(_, _)
FlowFrom(seen, blocked) ==
    LET more == (UNION {Flow(i) : i \in seen \cap DOMAIN l_mir}) \ blocked
    IN IF more \subseteq seen THEN seen ELSE FlowFrom(seen \cup more, blocked)

LoweredIfs == {l_done[n] : n \in {m \in DOMAIN l_done : l_done[m].kind = "if"}}

HasFalseBody(d) == d.false_first <= d.false_last

\* C22: an if with an else block: the BR_IF_NOT targets the first block of
\* the false body, and no execution that enters the true body reaches an
\* instruction of the false body (without taking the if again), whatever the
\* last statement of the true body is.
C22_TrueBodySkipsFalseBody ==
    l_pc = "done" =>
        \A d \in LoweredIfs :
            HasFalseBody(d) =>
                /\ BlockFirst(l_mir[d.br].index) = {d.false_first}
                /\ FlowFrom({d.br + 1}, {d.br}) \cap (d.false_first .. d.false_last) = {}

\* C24: in a lowered void function every execution that reaches the end of
\* the body arrives at a RET_VOID of the function: none runs past the last
\* instruction or jumps out of the function.
C24_VoidBodyEndsInRetVoid ==
    (l_pc = "done" /\ l_void) => Off \notin FlowFrom({1}, {})

\* C25: an if without an else block is lowered without a BR of its own: its
\* only branch is the BR_IF_NOT, which targets the exit, whether or not the
\* true body ends in a terminator.
C25_NoElseNoMiddleBr ==
    l_pc = "done" =>
        \A d \in LoweredIfs :
            ~HasFalseBody(d) =>
                /\ d.true_br = d.br
                /\ d.false_br = d.br
                /\ BlockFirst(l_mir[d.br].index) = {d.last + 1}

\* The loops closed so far, and the loop a break or continue stands in.
LoweredLoops == {l_done[n] : n \in {m \in DOMAIN l_done : l_done[m].kind = "loop"}}

LoweredJumps(kind) == {l_done[n] : n \in {m \in DOMAIN l_done : l_done[m].kind = kind}}

\* Every break of a closed loop targets the block right after that loop, and
\* every continue its next-step block (the condition block without one).
JumpsPatched ==
    \A loop \in LoweredLoops :
        /\ \A d \in LoweredJumps("break") :
              d.loop = loop.br => BlockFirst(l_mir[d.br].index) = {loop.last + 1}
        /\ \A d \in LoweredJumps("continue") :
              d.loop = loop.br =>
                  BlockFirst(l_mir[d.br].index) =
                      {IF loop.next_first # 0 THEN loop.next_first ELSE loop.br}

\* A step that closes a loop leaves the pending lists as they were when the
\* loop was entered.
LoopRestoresLists ==
    (l_frames # <<>> /\ l_frames[Len(l_frames)].kind = "loop"
        /\ Len(l_frames') < Len(l_frames))
        => /\ l_breaks' = l_frames[Len(l_frames)].breaks_in
           /\ l_continues' = l_frames[Len(l_frames)].continues_in

\* C23: for every nest of loops each break is patched to the exit block of
\* its innermost enclosing loop and each continue to that loop's next-step
\* block (the condition block when there is none), and a loop that closes
\* restores the pending break and continue lists to the entries they held
\* when it was entered.
C23_LoopJumpsPatched == [](l_pc = "done" => JumpsPatched) /\ [][LoopRestoresLists]_vars

\* An inner loop was closed while a break of the outer loop was pending, and
\* the function is lowered.
C23_InnerLoopBesidePendingBreak ==
    /\ l_pc = "done"
    /\ \E inner, outer \in LoweredLoops, b1 \in LoweredJumps("break") :
          /\ b1.loop = outer.br
          /\ outer.br < b1.br /\ b1.br < inner.br /\ inner.last < outer.last

(***************************************************************************)
(* 4. The substructural (affine) checker on one function: tir-analysis.c   *)
(***************************************************************************)
\* Locals (parameters and lets) of the checked function.
MaxVars == 2

\* No variable: an operand that is a call taking no argument.
NoVar == MaxVars

\* Cells of the scratch arena: var_states, var_refs and one copy_state per
\* open if or switch.
MemSize == (MaxDepth + 3) * MaxVars

Cells == 0 .. (MemSize - 1)

KTop == k_stack[Len(k_stack)]

\* The LinearChecker the statements of the current block are checked with.
KCtx == KTop.ctx

Vars == 0 .. (k_var_count - 1)

\* error (46-56): the diagnostic is printed, the error flag set in the
\* LinearChecker the call was given.
KError(s, kind) ==
    [s EXCEPT !.ctx.error = 1, !.diags = @ \cup {kind}]

\* check_value (60-129) on a variable of linear type; s = [ctx, mem, diags].
CheckValue(s, var, expected_category) ==
    LET cell == s.ctx.var_states + var
    IN IF s.mem[cell] = "VAR_CONSUMED"
       THEN KError(s, "ERROR_CONSUMED_VALUE_USED")
       ELSE IF expected_category = "RVALUE"
       THEN LET s1 == [s EXCEPT !.mem[cell] = "VAR_CONSUMED"]
            IN IF var < s.ctx.var_states_loop_top
               THEN KError(s1, "ERROR_CONSUMED_IN_LOOP")
               ELSE s1
       ELSE s

\* copy_state (233-237): arena_alloc zeroes var_count cells at the checker's
\* own scratch pointer, memcpy fills the first var_states_top of them.
CopyState(s) ==
    LET state == s.ctx.scratch
    IN [ctx |-> [s.ctx EXCEPT !.scratch = @ + k_var_count],
        mem |-> [a \in Cells |->
                    IF a < state \/ a >= state + k_var_count THEN s.mem[a]
                    ELSE IF a - state < s.ctx.var_states_top
                    THEN s.mem[s.ctx.var_states + (a - state)]
                    ELSE "VAR_NOT_CONSUMED"],
        diags |-> s.diags,
        state |-> state]

\* The state the checker works on.
KState == [ctx |-> KCtx, mem |-> k_mem, diags |-> k_diags]

\* One more consumption of `var` on every path that reaches this point.
Consume(paths, var) ==
    IF var = NoVar THEN paths
    ELSE {[p EXCEPT ![var] = IF @ < 2 THEN @ + 1 ELSE 2] : p \in paths}

\* How a statement uses a local x of linear type in an argument of a call:
\* x itself (a move), x.f with f a field of non-linear type, &x, &mut x.
Uses == {"move", "field", "address", "address_mut"}

\* The argument lists of the calls checked.
UseSeqs ==
    {<<"move">>, <<"field">>, <<"address">>, <<"address_mut">>, <<"address", "move">>,
     <<"address_mut", "address_mut">>, <<"address", "address_mut">>}

NoUse == [var |-> NoVar, uses |-> <<>>, state |-> "", in_loop |-> FALSE, reported |-> {}]

\* check_value (60-63) on the argument of a call: an argument whose type is not
\* linear (a field of non-linear type, an address) is not looked into.
CheckArg(s, var, use) ==
    IF use = "move" THEN CheckValue(s, var, "RVALUE") ELSE s

\* check_call 192-195: the arguments in order.
RECURSIVE CheckArgs(_, _, _)
CheckArgs(s, var, uses) ==
    IF uses = <<>> THEN s
    ELSE CheckArgs(CheckArg(s, var, Head(uses)), var, Tail(uses))

\* The local was declared before a loop that is being checked.
DeclaredBeforeLoop(var) ==
    \E i \in DOMAIN k_stack : k_stack[i].kind = "loop" /\ var \in k_stack[i].scope

\* The uses of `var` by a statement that printed `reported`.
Used(var, uses, reported) ==
    [var |-> var, uses |-> uses, state |-> k_mem[KCtx.var_states + var],
     in_loop |-> DeclaredBeforeLoop(var), reported |-> reported]

KFrame(kind, ctx) ==
    [kind |-> kind, ctx |-> ctx, enter_state |-> 0, prev_loop_top |-> 0,
     paths_in |-> k_paths, paths_true |-> {}, scope |-> k_scope]

CanCheck == k_pc = "body" /\ k_stmts < MaxStmts /\ ~k_switch.active

KBlockEnds == k_pc = "body" /\ ~k_switch.active

\* check_substructural_types 462-475: a zeroed LinearChecker, var_states and
\* var_refs from the scratch arena; the parameters are the first locals
\* (type-analysis.c:491-496).
LinInit ==
    /\ k_var_count \in 1 .. MaxVars
    /\ k_locals \in {0, 1}
    /\ k_locals <= k_var_count
    /\ k_scope = 0 .. (k_locals - 1)
    /\ k_mem = [a \in Cells |-> "VAR_NOT_CONSUMED"]
    /\ k_stack = <<[kind |-> "function",
                    ctx |-> [var_states |-> 0, var_states_top |-> 0,
                             var_states_loop_top |-> 0, scratch |-> 2 * k_var_count,
                             error |-> 0],
                    enter_state |-> 0, prev_loop_top |-> 0, paths_in |-> {},
                    paths_true |-> {}, scope |-> {}]>>
    /\ k_switch = NoSwitch
    /\ k_diags = {}
    /\ k_paths = {[v \in Vars |-> 0]}
    /\ k_stmts = 0
    /\ k_pc = "body"
    /\ k_error = 0
    /\ k_last = NoUse
    /\ DrvIdle /\ RoleIdle /\ LowerIdle /\ TypeIdle /\ ExprIdle

\* Replace the current LinearChecker, the arena cells and the diagnostics.
KSet(s) ==
    /\ k_stack' = [k_stack EXCEPT ![Len(k_stack)].ctx = s.ctx]
    /\ k_mem' = s.mem
    /\ k_diags' = s.diags

\* check_let (131-138) on `let y = mk()` or `let y = x`.
CheckLet ==
    /\ CanCheck
    /\ k_locals < k_var_count
    /\ \E init \in k_scope \cup {NoVar} :
          LET s1 == [KState EXCEPT !.mem[KCtx.var_states + k_locals] = "VAR_NOT_CONSUMED",
                                   !.ctx.var_states_top = @ + 1]
          IN /\ KSet(IF init = NoVar THEN s1 ELSE CheckValue(s1, init, "RVALUE"))
             /\ k_paths' = Consume(k_paths, init)
             /\ k_last' = IF init = NoVar THEN k_last
                          ELSE Used(init, <<"move">>,
                                    CheckValue([s1 EXCEPT !.diags = {}], init, "RVALUE").diags)
    /\ k_scope' = k_scope \cup {k_locals}
    /\ k_locals' = k_locals + 1
    /\ k_stmts' = k_stmts + 1
    /\ UNCHANGED <<k_var_count, k_switch, k_pc, k_error>>
    /\ UNCHANGED notLinVars

\* check_node TIR_VALUE (354-358) on a statement that calls a function with
\* arguments built from the local `arg`, such as `consume(x)`, `read(x.f)`
\* or `swap(&mut x, &mut x)`: check_call (187-197) checks each argument as an
\* rvalue.
CheckCall ==
    /\ CanCheck
    /\ \E arg \in k_scope, uses \in UseSeqs :
          /\ KSet(CheckArgs(KState, arg, uses))
          /\ k_paths' = IF "move" \in Range(uses) THEN Consume(k_paths, arg) ELSE k_paths
          /\ k_last' = Used(arg, uses, CheckArgs([KState EXCEPT !.diags = {}], arg, uses).diags)
    /\ k_stmts' = k_stmts + 1
    /\ UNCHANGED <<k_var_count, k_locals, k_scope, k_switch, k_pc, k_error>>
    /\ UNCHANGED notLinVars

\* check_if 239-249: the condition is not linear; true_ctx is a copy of *ctx
\* that shares its var_states, enter_state a copy of the states.
CheckIfBegin ==
    /\ CanCheck
    /\ Len(k_stack) <= MaxDepth
    /\ LET s == CopyState(KState)
       IN /\ k_stack' = Append(k_stack, [KFrame("if_true", s.ctx) EXCEPT
                                            !.enter_state = s.state])
          /\ k_mem' = s.mem
    /\ k_stmts' = k_stmts + 1
    /\ UNCHANGED <<k_var_count, k_locals, k_scope, k_switch, k_diags, k_paths, k_pc,
                   k_error>>
    /\ UNCHANGED k_last
    /\ UNCHANGED notLinVars

\* check_if 256-257: false_ctx is true_ctx on the states saved at entry.
CheckIfElse ==
    /\ KBlockEnds
    /\ KTop.kind = "if_true"
    /\ k_stack' = [k_stack EXCEPT ![Len(k_stack)] =
                      [KTop EXCEPT !.kind = "if_false",
                                   !.ctx.var_states = KTop.enter_state,
                                   !.paths_true = k_paths]]
    /\ k_paths' = KTop.paths_in
    /\ k_scope' = KTop.scope
    /\ UNCHANGED <<k_var_count, k_locals, k_mem, k_switch, k_diags, k_stmts, k_pc,
                   k_error>>
    /\ UNCHANGED k_last
    /\ UNCHANGED notLinVars

\* check_if 264-269: a variable whose state differs between the two blocks
\* is consumed; *ctx is otherwise left as it was.
CheckIfEnd ==
    /\ KBlockEnds
    /\ KTop.kind = "if_false"
    /\ LET ctx == k_stack[Len(k_stack) - 1].ctx
           false_ctx == KCtx
       IN k_mem' = [a \in Cells |->
                       IF /\ a >= ctx.var_states
                          /\ a - ctx.var_states < ctx.var_states_top
                          /\ k_mem[a] # k_mem[false_ctx.var_states + (a - ctx.var_states)]
                       THEN "VAR_CONSUMED"
                       ELSE k_mem[a]]
    /\ k_paths' = KTop.paths_true \cup k_paths
    /\ k_scope' = KTop.scope
    /\ k_stack' = SubSeq(k_stack, 1, Len(k_stack) - 1)
    /\ UNCHANGED <<k_var_count, k_locals, k_switch, k_diags, k_stmts, k_pc, k_error>>
    /\ UNCHANGED k_last
    /\ UNCHANGED notLinVars

\* check_loop 311-320: the body is checked with the caller's LinearChecker.
CheckLoopBegin ==
    /\ CanCheck
    /\ Len(k_stack) <= MaxDepth
    /\ k_stack' = Append(k_stack,
                     [KFrame("loop", [KCtx EXCEPT !.var_states_loop_top =
                                                     KCtx.var_states_top])
                         EXCEPT !.prev_loop_top = KCtx.var_states_loop_top])
    /\ k_stmts' = k_stmts + 1
    /\ UNCHANGED <<k_var_count, k_locals, k_scope, k_mem, k_switch, k_diags, k_paths,
                   k_pc, k_error>>
    /\ UNCHANGED k_last
    /\ UNCHANGED notLinVars

\* check_loop 327-332: no next expression.  A path runs the body once or
\* not at all.
CheckLoopEnd ==
    /\ KBlockEnds
    /\ KTop.kind = "loop"
    /\ k_stack' = [SubSeq(k_stack, 1, Len(k_stack) - 1) EXCEPT ![Len(k_stack) - 1].ctx =
                      [KCtx EXCEPT !.var_states_loop_top = KTop.prev_loop_top]]
    /\ k_paths' = KTop.paths_in \cup k_paths
    /\ k_scope' = KTop.scope
    /\ UNCHANGED <<k_var_count, k_locals, k_mem, k_switch, k_diags, k_stmts, k_pc,
                   k_error>>
    /\ UNCHANGED k_last
    /\ UNCHANGED notLinVars

\* check_let then check_switch 271-288 on `let z = switch c { ... }`: the
\* switched value and the patterns are not linear; first_pattern_ctx is a
\* copy of *ctx on a copy of the states.
CheckSwitchBegin ==
    /\ CanCheck
    /\ k_locals < k_var_count
    /\ \E branch_count \in 1 .. MaxBranches :
          LET s1 == [KState EXCEPT !.mem[KCtx.var_states + k_locals] = "VAR_NOT_CONSUMED",
                                   !.ctx.var_states_top = @ + 1]
              first == CopyState(s1)
          IN /\ KSet([s1 EXCEPT !.mem = first.mem])
             /\ k_switch' = [active |-> TRUE, j |-> 0, branch_count |-> branch_count,
                             first_pattern_ctx |-> [first.ctx EXCEPT !.var_states = first.state],
                             paths_in |-> k_paths, paths_out |-> {}]
    /\ k_stmts' = k_stmts + 1
    /\ UNCHANGED <<k_var_count, k_locals, k_scope, k_paths, k_pc, k_error>>
    /\ UNCHANGED k_last
    /\ UNCHANGED notLinVars

\* check_switch 291-308: one iteration of the loop over the branches; the
\* branch's value is a variable or a call taking no argument.
CheckSwitchBranch ==
    /\ k_pc = "body"
    /\ k_switch.active
    /\ k_switch.j < k_switch.branch_count
    /\ \E value \in k_scope \cup {NoVar} :
          LET first == k_switch.first_pattern_ctx
              Check(s) == IF value = NoVar THEN s ELSE CheckValue(s, value, "RVALUE")
              f == Check([ctx |-> first, mem |-> k_mem, diags |-> k_diags])
              c == CopyState(KState)
              pattern_ctx == [c.ctx EXCEPT !.var_states = c.state]
              p == Check([ctx |-> pattern_ctx, mem |-> c.mem, diags |-> k_diags])
          IN /\ IF k_switch.j = 0
                THEN /\ k_mem' = f.mem
                     /\ k_diags' = f.diags
                     /\ k_switch' = [k_switch EXCEPT !.j = 1, !.first_pattern_ctx = f.ctx,
                                        !.paths_out = Consume(k_switch.paths_in, value)]
                ELSE /\ k_mem' = [a \in Cells |->
                            IF /\ a >= KCtx.var_states
                               /\ a - KCtx.var_states < KCtx.var_states_top
                               /\ \/ p.mem[first.var_states + (a - KCtx.var_states)]
                                        # p.mem[pattern_ctx.var_states + (a - KCtx.var_states)]
                                  \/ p.mem[first.var_states + (a - KCtx.var_states)]
                                        = "VAR_CONSUMED"
                            THEN "VAR_CONSUMED"
                            ELSE p.mem[a]]
                     /\ k_diags' = p.diags
                     /\ k_switch' = [k_switch EXCEPT !.j = @ + 1,
                                        !.paths_out = @ \cup Consume(k_switch.paths_in, value)]
    /\ UNCHANGED <<k_var_count, k_locals, k_scope, k_stack, k_paths, k_stmts, k_pc,
                   k_error>>
    /\ UNCHANGED k_last
    /\ UNCHANGED notLinVars

\* check_switch 309: every path took one of the branches; z is in scope.
CheckSwitchEnd ==
    /\ k_pc = "body"
    /\ k_switch.active
    /\ k_switch.j = k_switch.branch_count
    /\ k_paths' = k_switch.paths_out
    /\ k_scope' = k_scope \cup {k_locals}
    /\ k_locals' = k_locals + 1
    /\ k_switch' = NoSwitch
    /\ UNCHANGED <<k_var_count, k_stack, k_mem, k_diags, k_stmts, k_pc, k_error>>
    /\ UNCHANGED k_last
    /\ UNCHANGED notLinVars

\* check_function 334-342 returns; check_substructural_types 476-478.
CheckFunctionEnd ==
    /\ KBlockEnds
    /\ Len(k_stack) = 1
    /\ k_locals = k_var_count
    /\ k_pc' = "done"
    /\ k_error' = KCtx.error
    /\ UNCHANGED <<k_var_count, k_locals, k_scope, k_stack, k_mem, k_switch, k_diags,
                   k_paths, k_stmts>>
    /\ UNCHANGED k_last
    /\ UNCHANGED notLinVars

LinNext ==
    \/ CheckLet
    \/ CheckCall
    \/ CheckIfBegin
    \/ CheckIfElse
    \/ CheckIfEnd
    \/ CheckLoopBegin
    \/ CheckLoopEnd
    \/ CheckSwitchBegin
    \/ CheckSwitchBranch
    \/ CheckSwitchEnd
    \/ CheckFunctionEnd

SpecLinear == LinInit /\ [][LinNext]_vars

\* C1: when the checker has printed no diagnostic for a function, no local of
\* linear type is consumed more than once along any acyclic path of it.
C1_AffineCorrectness ==
    (k_pc = "done" /\ k_diags = {}) =>
        \A p \in k_paths : \A v \in Vars : p[v] <= 1

\* The borrows of the local that precede use number i of the last statement.
BorrowedBefore(i) == {k_last.uses[j] : j \in 1 .. (i - 1)} \cap {"address", "address_mut"}

\* C14: the local not being consumed, moving it while its address is
\* borrowed is reported as ERROR_MOVE_BORROWED, a second mutable borrow as
\* ERROR_MULTIBLE_MUTABLE_BORROWS, and a shared borrow together with a mutable
\* one as ERROR_BORROWED_MUTABLE_SHARED.
C14_BorrowsEnforced ==
    (k_pc \in {"body", "done"} /\ k_last.state = "VAR_NOT_CONSUMED") =>
        \A i \in DOMAIN k_last.uses :
           /\ (k_last.uses[i] = "move" /\ BorrowedBefore(i) # {})
                 => "ERROR_MOVE_BORROWED" \in k_last.reported
           /\ (k_last.uses[i] = "address_mut" /\ "address_mut" \in BorrowedBefore(i))
                 => "ERROR_MULTIBLE_MUTABLE_BORROWS" \in k_last.reported
           /\ (k_last.uses[i] = "address_mut" /\ "address" \in BorrowedBefore(i))
                 => "ERROR_BORROWED_MUTABLE_SHARED" \in k_last.reported

\* C15: a move, inside the body of a loop, of a local that was declared
\* before the loop and is not yet consumed is reported as
\* ERROR_CONSUMED_IN_LOOP.
C15_ConsumedInLoopReported ==
    (/\ k_pc \in {"body", "done"}
     /\ k_last.uses = <<"move">>
     /\ k_last.in_loop
     /\ k_last.state = "VAR_NOT_CONSUMED")
        => "ERROR_CONSUMED_IN_LOOP" \in k_last.reported

\* C19: every use of a local whose state is VAR_CONSUMED is reported as
\* ERROR_CONSUMED_VALUE_USED, be it a move, a read of a field of non-linear
\* type or taking the address.
C19_ConsumedUseReported ==
    (/\ k_pc \in {"body", "done"}
     /\ k_last.uses # <<>>
     /\ k_last.state = "VAR_CONSUMED")
        => "ERROR_CONSUMED_VALUE_USED" \in k_last.reported

\* check_if begins: the states the false block will start from are a copy of
\* the states of all the locals in scope.
ForkCopiesEntryState ==
    (Len(k_stack') = Len(k_stack) + 1 /\ k_stack'[Len(k_stack')].kind = "if_true") =>
        \A v \in k_scope :
           k_mem'[k_stack'[Len(k_stack')].enter_state + v] = k_mem[KCtx.var_states + v]

\* check_if ends: a local in scope before the if whose state differs between
\* the two blocks is VAR_CONSUMED afterwards.
MergeConsumesDifferences ==
    (Len(k_stack') = Len(k_stack) - 1 /\ KTop.kind = "if_false") =>
        \A v \in KTop.scope :
           k_mem[k_stack[Len(k_stack) - 1].ctx.var_states + v] # k_mem[KCtx.var_states + v]
              => k_mem'[k_stack'[Len(k_stack')].ctx.var_states + v] = "VAR_CONSUMED"

\* C20: each block of an if starts from a copy of the entry state of every
\* local declared so far, parameters included, and after the if every such
\* local whose state differs between the blocks is VAR_CONSUMED.
C20_ForkMerge == [][ForkCopiesEntryState /\ MergeConsumesDifferences]_vars

\* C21: check_substructural_types returns a non-zero result whenever an
\* affine diagnostic was printed for the function, also when it was printed
\* while an if block, an else block or a switch branch was checked.
C21_DiagnosticsSetError == (k_pc = "done" /\ k_diags # {}) => k_error # 0

(***************************************************************************)
(* 5. Structural type interning: data/tir.c, analyze_types                 *)
(***************************************************************************)
\* Types a TypeList may hold: the declarations', a function body's.
MaxGlobalTypes == 3
MaxLocalTypes == 2

\* Ids below TYPE_COUNT are the primitive types (enums.h is generated and
\* not part of the sources); id 0 is the null type, id 1 stands for i32.
TYPE_COUNT == 2

PrimitiveTypes == {1}

\* The functions of the omp for (type-analysis.c:2222).
Functions == {1, 2}

\* typeset_init(64) at tir.c:231, scaled down so that typeset_resize runs; a
\* power of two, as the masks at 205-207 and 237-252 need.
InitialCapacity == 2 ^ 2

\* size_t arithmetic keeps the low bits exact; the masks use fewer bits.
SizeMod == 2 ^ 16

\* The tags in the order of the switch of get_type_from_id (41-88).
TypeTags == <<"TYPE_PRIMITIVE", "TYPE_NEWTYPE", "TYPE_STRUCT", "TYPE_ENUM",
              "TYPE_TYPE_PARAMETER", "TYPE_ARRAY", "TYPE_ARRAY_LENGTH", "TYPE_PTR",
              "TYPE_PTR_MUT", "TYPE_MULTIPTR", "TYPE_MULTIPTR_MUT", "TYPE_FUNCTION",
              "TYPE_TAGGED", "TYPE_LINEAR">>

TagValue(tag) == (CHOOSE i \in DOMAIN TypeTags : TypeTags[i] = tag) - 1

EmptyTypeList == [types |-> <<>>, ptr |-> <<>>, count |-> 0]

\* StructuralType (17-39): unary is the pointee, or the return type of a
\* function type without parameters.
Descriptor(tag, unary, type_param_count) ==
    [tag |-> tag, unary |-> unary, type_param_count |-> type_param_count]

\* get_type_index (477-482), get_type_from_id (41-88); g is ctx.global's
\* TypeList, t ctx.thread's.
GetTypeFromId(g, t, type) ==
    IF type < TYPE_COUNT THEN Descriptor("TYPE_PRIMITIVE", type, 0)
    ELSE IF type - TYPE_COUNT < Len(g.types) THEN g.types[type - TYPE_COUNT + 1]
    ELSE t.types[type - TYPE_COUNT - Len(g.types) + 1]

\* A type_eq that finds no two types equal.
TypeEqNever(a, b) == FALSE

\* type_eq (90-140).
TypeEq(a, b) ==
    IF a.tag # b.tag THEN FALSE
    ELSE IF a.tag \in {"TYPE_PRIMITIVE", "TYPE_NEWTYPE", "TYPE_STRUCT", "TYPE_ENUM",
                       "TYPE_TYPE_PARAMETER"} THEN FALSE
    ELSE IF a.tag = "TYPE_FUNCTION"
    THEN IF a.type_param_count # 0 \/ b.type_param_count # 0 THEN FALSE
         ELSE a.unary = b.unary
    ELSE a.unary = b.unary

\* hash_type (142-190).
RECURSIVE HashType(_, _, _)
HashType(g, t, type) ==
    IF type.tag = "TYPE_PRIMITIVE"
    THEN (31 * (31 * 17 + TagValue(type.tag)) + type.unary) % SizeMod
    ELSE IF type.tag = "TYPE_FUNCTION"
    THEN (31 * (31 * (31 * (31 * 17 + TagValue(type.tag)) + type.type_param_count) + 0)
            + HashType(g, t, GetTypeFromId(g, t, type.unary))) % SizeMod
    ELSE (31 * (31 * 17 + TagValue(type.tag))
            + HashType(g, t, GetTypeFromId(g, t, type.unary))) % SizeMod

\* typeset_init (192-202).
TypesetInit(capacity) == [i \in 1 .. capacity |-> 0]

\* The one element of a singleton; {e : x \in {v}} names the value v once.
Only(S) == CHOOSE x \in S : TRUE

\* The loops at 206-208, 238-243 and 248-253: the first slot, probing from
\* hash & (capacity - 1), that is empty or (match) holds a type equal to
\* descriptor.  Slot s is ptr[s + 1].
Probe(ptr, g, t, hash, descriptor, match) ==
    Only({(hash + (CHOOSE n \in stops : \A j \in stops : n <= j)) % Len(ptr) :
            stops \in {{n \in 0 .. (Len(ptr) - 1) :
                          \/ ptr[((hash + n) % Len(ptr)) + 1] = 0
                          \/ /\ match
                             /\ TypeEq(GetTypeFromId(g, t, ptr[((hash + n) % Len(ptr)) + 1]),
                                       descriptor)}}})

\* typeset_insert_entry (204-210).
TypesetInsertEntry(ptr, key, g, t) ==
    [ptr EXCEPT ![Probe(ptr, g, t, HashType(g, t, GetTypeFromId(g, t, key)),
                        GetTypeFromId(g, t, key), FALSE) + 1] = key]

\* typeset_resize (212-222): the entries of slots i, i + 1, ... re-inserted.
RECURSIVE ResizeFrom(_, _, _, _, _)
ResizeFrom(new_ptr, ptr, i, g, t) ==
    IF i > Len(ptr) THEN new_ptr
    ELSE IF ptr[i] = 0 THEN ResizeFrom(new_ptr, ptr, i + 1, g, t)
    ELSE Only({ResizeFrom(inserted, ptr, i + 1, g, t) :
                  inserted \in {TypesetInsertEntry(new_ptr, ptr[i], g, t)}})

TypesetResize(ptr, g, t) == ResizeFrom(TypesetInit(Len(ptr) * 2), ptr, 1, g, t)

\* A probe of the global set that finds nothing.
GlobalProbeMiss(g, t, hash, descriptor) == 0

\* The probe of the frozen global set by a function body (245-254): the
\* global id of a type equal to descriptor, or 0.
GlobalProbe(g, t, hash, descriptor) ==
    g.ptr[Probe(g.ptr, g, t, hash, descriptor, TRUE) + 1]

\* new_structural_type 229-234: the set of ctx_types(ctx), initialised or
\* grown.
PreparedSet(own, g, t) ==
    IF Len(own.ptr) = 0 THEN TypesetInit(InitialCapacity)
    ELSE IF (own.count * 4) \div Len(own.ptr) >= 3 THEN TypesetResize(own.ptr, g, t)
    ELSE own.ptr

\* new_structural_type 256-333: found holds what the probes of 236-254 gave,
\* the local hit first; without a hit a new id is put in the free slot and
\* the type appended.
Intern(own, ptr, slot, found, type, descriptor) ==
    IF found # 0 THEN [types |-> [own EXCEPT !.ptr = ptr], id |-> found]
    ELSE [types |-> [types |-> Append(own.types, descriptor),
                     ptr |-> [ptr EXCEPT ![slot + 1] = type],
                     count |-> own.count + 1],
          id |-> type]

\* new_structural_type (228-334).  thread: ctx.thread is set.  The result is
\* the TypeList written (ctx_types(ctx)) and the id returned.
NewStructuralType(g, t, thread, descriptor) ==
    Only({Only({Intern(IF thread THEN t ELSE g, ptr, slot,
                       IF ptr[slot + 1] # 0 THEN ptr[slot + 1]
                       ELSE IF thread THEN GlobalProbe(g, t, hash, descriptor)
                       ELSE 0,
                       Len(g.types) + TYPE_COUNT + (IF thread THEN Len(t.types) ELSE 0),
                       descriptor) :
                   slot \in {Probe(ptr, g, t, hash, descriptor, TRUE)}}) :
            ptr \in {PreparedSet(IF thread THEN t ELSE g, g, t)},
            hash \in {HashType(g, t, descriptor)}})

\* The type expressions analysed: *i32, **i32, *mut i32, a function type
\* returning i32, and the type of a generic function declaration.  tags
\* lists the constructors, innermost first.
TypeExpr(tags, type_param_count) == [tags |-> tags, type_param_count |-> type_param_count]

GenericFunction == TypeExpr(<<"TYPE_FUNCTION">>, 1)

TypeExprs ==
    {TypeExpr(<<"TYPE_PTR">>, 0), TypeExpr(<<"TYPE_PTR", "TYPE_PTR">>, 0),
     TypeExpr(<<"TYPE_PTR_MUT">>, 0), TypeExpr(<<"TYPE_FUNCTION">>, 0), GenericFunction}

\* A call of new_structural_type and its result.
Returned(r, descriptor) == [types |-> r.types, id |-> r.id, descriptor |-> descriptor]

\* analyze_type (type-analysis.c:2118-2134) on a type expression: analyze_ptr
\* (954-958) analyses the operand, then calls new_ptr_type;
\* analyze_function_type (683-694) and analyze_function_decl (433-450) call
\* new_function_type.
AnalyzeType(g, t, thread, expr) ==
    Only({IF Len(expr.tags) = 1
          THEN Returned(r1, Descriptor(expr.tags[1], 1, expr.type_param_count))
          ELSE Returned(NewStructuralType(IF thread THEN g ELSE r1.types,
                                          IF thread THEN r1.types ELSE t, thread,
                                          Descriptor(expr.tags[2], r1.id, 0)),
                        Descriptor(expr.tags[2], r1.id, 0)) :
            r1 \in {NewStructuralType(g, t, thread,
                                      Descriptor(expr.tags[1], 1, expr.type_param_count))}})

Request(ctx, r, allocated) ==
    [requested |-> TRUE, ctx |-> ctx, descriptor |-> r.descriptor, id |-> r.id,
     allocated |-> allocated]

\* analyze_types 2172-2187.
TypeInit ==
    /\ y_phase = "global"
    /\ y_global = EmptyTypeList
    /\ y_thread = [f \in Functions |-> EmptyTypeList]
    /\ y_last = [requested |-> FALSE, ctx |-> 0, descriptor |-> Descriptor("", 0, 0),
                 id |-> 0, allocated |-> 0]
    /\ DrvIdle /\ RoleIdle /\ LowerIdle /\ LinIdle /\ ExprIdle

\* analyze_types 2189-2200: a declaration of the order vector names a type.
GlobalAnalyzeType ==
    /\ y_phase = "global"
    /\ \E expr \in TypeExprs :
          \E r \in {AnalyzeType(y_global, EmptyTypeList, FALSE, expr)} :
             /\ Len(r.types.types) <= MaxGlobalTypes
             /\ y_global' = r.types
             /\ y_last' = Request(0, r, Len(r.types.types) - Len(y_global.types))
    /\ UNCHANGED <<y_phase, y_thread>>
    /\ UNCHANGED notTypeVars

\* analyze_types 2202-2205: the declarations are done, the parallel region
\* starts.  Every function has a declaration, whose type analyze_function_decl
\* has put in the global set.
StartThreads ==
    /\ y_phase = "global"
    /\ \E i \in DOMAIN y_global.types : y_global.types[i].tag = "TYPE_FUNCTION"
    /\ y_phase' = "threads"
    /\ UNCHANGED <<y_global, y_thread, y_last>>
    /\ UNCHANGED notTypeVars

\* analyze_types 2222-2243: the body of function f names a type; local_tc's
\* tir.thread is tirs[f].
ThreadAnalyzeType(f) ==
    /\ y_phase = "threads"
    /\ \E expr \in TypeExprs \ {GenericFunction} :
          \E r \in {AnalyzeType(y_global, y_thread[f], TRUE, expr)} :
             /\ Len(r.types.types) <= MaxLocalTypes
             /\ y_thread' = [y_thread EXCEPT ![f] = r.types]
             /\ y_last' = Request(f, r, Len(r.types.types) - Len(y_thread[f].types))
    /\ UNCHANGED <<y_phase, y_global>>
    /\ UNCHANGED notTypeVars

TypeNext ==
    \/ GlobalAnalyzeType
    \/ StartThreads
    \/ \E f \in Functions : ThreadAnalyzeType(f)

SpecTypes == TypeInit /\ [][TypeNext]_vars

\* The contexts that hold types: 0 is the global table alone, f the view of
\* the body of function f (the global table, then tirs[f]).
Contexts == {0} \cup (IF y_phase = "threads" THEN Functions ELSE {})

ThreadOf(c) == IF c = 0 THEN EmptyTypeList ELSE y_thread[c]

GlobalIds == TYPE_COUNT .. (TYPE_COUNT + Len(y_global.types) - 1)

IdsOf(c) == TYPE_COUNT .. (TYPE_COUNT + Len(y_global.types) + Len(ThreadOf(c).types) - 1)

LocalIdsOf(c) == IdsOf(c) \ GlobalIds

TypeOfId(c, id) == GetTypeFromId(y_global, ThreadOf(c), id)

\* Same tag and equal payload ids.
SameStructure(a, b) ==
    a.tag = b.tag /\ a.unary = b.unary /\ a.type_param_count = b.type_param_count

\* A function type with type parameters is the type of one declaration.
Shareable(d) == ~(d.tag = "TYPE_FUNCTION" /\ d.type_param_count # 0)

\* Within one context no two ids denote structurally equal types, and the id
\* returned to a request denotes the type requested.
InternedPerContext ==
    /\ \A c \in Contexts : \A i, j \in IdsOf(c) :
          (Shareable(TypeOfId(c, i)) /\ SameStructure(TypeOfId(c, i), TypeOfId(c, j)))
              => i = j
    /\ y_last.requested => TypeOfId(y_last.ctx, y_last.id) = y_last.descriptor

\* An id keeps its type: the tables only grow at the end.
TypesKept ==
    /\ \A i \in DOMAIN y_global.types : y_global'.types[i] = y_global.types[i]
    /\ \A f \in Functions : \A i \in DOMAIN y_thread[f].types :
          y_thread'[f].types[i] = y_thread[f].types[i]
    /\ (\E f \in Functions : y_thread[f].types # <<>>) =>
          Len(y_global'.types) = Len(y_global.types)

\* C9 (as amended): requests for structurally equal types return the same id
\* whenever they are issued in the global phase or in the body of one
\* function, whatever the order of the requests and whether or not the set
\* was rehashed in between: a context never holds two ids for one structural
\* type, the id returned denotes the type requested, and an id never changes
\* its type.  Function types with type parameters are not shared.
C9_StructuralInterning == [](InternedPerContext) /\ [][TypesKept]_vars

\* C9 witness: a request in the global phase was answered with an existing id
\* after the global set had been doubled and rehashed.
C9_HitAfterRehash ==
    /\ y_phase = "global"
    /\ y_last.requested /\ y_last.allocated = 0
    /\ Len(y_global.ptr) > InitialCapacity
    /\ Len(y_global.types) >= 3

\* C9 as stated: the id returned to a request is the id under which every
\* function body holds a structurally equal type (the payload being a
\* primitive or global type, whose id means the same in every body).
C9_SameIdInEveryBody ==
    (/\ y_phase = "threads"
     /\ y_last.requested
     /\ Shareable(y_last.descriptor)
     /\ y_last.descriptor.unary < TYPE_COUNT + Len(y_global.types))
        => \A c \in Functions : \A i \in IdsOf(c) :
              SameStructure(TypeOfId(c, i), y_last.descriptor) => i = y_last.id

\* A function body asked for a type the frozen global table holds: it got the
\* global id and its own table did not grow; and no type of a function
\* body's own table is structurally equal to a global type.
GlobalTypesReused ==
    /\ (y_phase = "threads" /\ y_last.requested /\ y_last.ctx # 0) =>
          \A i \in GlobalIds :
             (Shareable(y_last.descriptor)
                /\ SameStructure(TypeOfId(0, i), y_last.descriptor))
                 => (y_last.id = i /\ y_last.allocated = 0)
    /\ \A f \in Contexts \ {0} : \A i \in LocalIdsOf(f) : \A j \in GlobalIds :
          ~SameStructure(TypeOfId(f, i), TypeOfId(0, j))

\* A step of the parallel region leaves the global table as it was, and a
\* step of one function body leaves the table of every other body as it was.
GlobalFrozen ==
    y_phase = "threads" =>
        /\ y_global' = y_global
        /\ \A f, g \in Functions :
              (f # g /\ y_thread'[f] # y_thread[f]) => y_thread'[g] = y_thread[g]

\* C10 (as amended): in the parallel region a function body that builds a
\* structural type present in the frozen global table gets the global id and
\* adds nothing to its own table, no body writes the global table or another
\* body's table, and so under every interleaving each body's view holds one
\* id per structural type; types that only function bodies build are not
\* shared between bodies.
C10_WorkersReuseGlobalTypes ==
    [](GlobalTypesReused) /\ [][GlobalFrozen]_vars

\* C10 witness: a function body was answered with a global id while another
\* body had already built types of its own.
C10_GlobalHitBesideOtherWorker ==
    /\ y_phase = "threads"
    /\ y_last.requested /\ y_last.ctx # 0
    /\ y_last.id \in GlobalIds /\ y_last.allocated = 0
    /\ \E g \in Functions \ {y_last.ctx} : y_thread[g].types # <<>>

\* C10 as stated: with the global types reused, structural equality implies
\* equal ids (I1) across the tables of all function bodies.
C10_InterningAcrossWorkers ==
    /\ GlobalTypesReused
    /\ \A f, g \in Contexts \ {0} : \A i \in LocalIdsOf(f) : \A j \in LocalIdsOf(g) :
          (/\ TypeOfId(f, i).unary < TYPE_COUNT + Len(y_global.types)
           /\ SameStructure(TypeOfId(f, i), TypeOfId(g, j))) => i = j

(***************************************************************************)
(* 6. Constant folding: analyze_int, analyze_un_arithmetic and             *)
(*    analyze_bin_arithmetic (type-analysis.c)                             *)
(***************************************************************************)
\* Widths, scaled down: int64_t (the type of Constant.i, and of "i64") has
\* Int64Bits bits, "i8" has Int8Bits bits.
Int64Bits == 4

Int8Bits == 3

IntTypes == {"i8", "i64"}

TypeBits(type) == IF type = "i8" THEN Int8Bits ELSE Int64Bits

IntMin(bits) == -(2 ^ (bits - 1))

IntMax(bits) == 2 ^ (bits - 1) - 1

INT64_MIN == IntMin(Int64Bits)

INT64_MAX == IntMax(Int64Bits)

\* int_fits_in_type (data/tir.c:694-705), int_fits_in_bytes (658-668).
IntFitsInType(i, type) == i >= IntMin(TypeBits(type)) /\ i <= IntMax(TypeBits(type))

\* C's / and % on int64_t: the quotient is truncated towards zero.
Abs(i) == IF i < 0 THEN -i ELSE i

CDiv(a, b) == IF (a < 0) = (b < 0) THEN Abs(a) \div Abs(b) ELSE -(Abs(a) \div Abs(b))

CMod(a, b) == a - b * CDiv(a, b)

null_value == [tag |-> "VAL_ERROR", type |-> "invalid", i |-> 0]

NewIntConstant(type, i) == [tag |-> "VAL_CONST_INT", type |-> type, i |-> i]

\* The process was killed while the expression was analysed.
Crashed == [tag |-> "crashed", type |-> "invalid", i |-> 0]

Returned1(value, diags) == [value |-> value, diags |-> diags]

\* analyze_int (754-758).
AnalyzeInt(i, hint) ==
    Returned1(NewIntConstant(IF IntFitsInType(i, hint) THEN hint ELSE "i64", i), {})

\* analyze_un_arithmetic (858-899) on an integer constant operand.
AnalyzeUnArithmetic(tag, operand_value) ==
    IF tag = "TIR_PLUS" THEN Returned1(operand_value, {})
    ELSE IF operand_value.i = INT64_MIN
    THEN Returned1(null_value, {"ERROR_CONST_INT_OVERFLOW"})
    ELSE Returned1(NewIntConstant(operand_value.type, -operand_value.i), {})

\* The mathematical result of a binary operation, the divisor not being 0.
Arith(tag, a, b) ==
    CASE tag = "TIR_ADD" -> a + b
      [] tag = "TIR_SUB" -> a - b
      [] tag = "TIR_MUL" -> a * b
      [] tag = "TIR_DIV" -> CDiv(a, b)
      [] tag = "TIR_MOD" -> CMod(a, b)

\* analyze_bin_arithmetic (1079-1133) on two integer constants: the set of
\* the outcomes.  INT64_MIN % -1 is evaluated by the % of C, which is
\* undefined for it: the division traps, or the remainder 0 is computed.
AnalyzeBinArithmetic(tag, left_value, right_value) ==
    IF left_value.type # right_value.type
    THEN {Returned1(null_value, {"ERROR_BINARY_UNEXPECTED_OPERANDS"})}
    ELSE IF \/ tag \in {"TIR_DIV", "TIR_MOD"} /\ right_value.i = 0
            \/ tag = "TIR_DIV" /\ left_value.i = INT64_MIN /\ right_value.i = -1
    THEN {Returned1(null_value, {"ERROR_CONST_INT_OVERFLOW"})}
    ELSE IF tag = "TIR_MOD" /\ left_value.i = INT64_MIN /\ right_value.i = -1
    THEN {Returned1(Crashed, {}),
          IF IntFitsInType(0, left_value.type)
          THEN Returned1(NewIntConstant(left_value.type, 0), {})
          ELSE Returned1(null_value, {"ERROR_CONST_INT_OVERFLOW"})}
    ELSE IF \/ Arith(tag, left_value.i, right_value.i) < INT64_MIN
            \/ Arith(tag, left_value.i, right_value.i) > INT64_MAX
            \/ ~IntFitsInType(Arith(tag, left_value.i, right_value.i), left_value.type)
    THEN {Returned1(null_value, {"ERROR_CONST_INT_OVERFLOW"})}
    ELSE {Returned1(NewIntConstant(left_value.type,
                                   Arith(tag, left_value.i, right_value.i)), {})}

UnTags == {"TIR_PLUS", "TIR_MINUS"}

BinTags == {"TIR_ADD", "TIR_SUB", "TIR_MUL", "TIR_DIV", "TIR_MOD"}

NoOperand == [tag |-> "none", type |-> "invalid", i |-> 0]

\* An expression is analysed bottom-up; e_out is the value of the
\* subexpression analysed last.
FoldInit ==
    /\ e_pc = "fold"
    /\ e_in = [tag |-> "none", left |-> NoOperand, right |-> NoOperand]
    /\ e_out = null_value
    /\ e_diags = {}
    /\ DrvIdle /\ RoleIdle /\ LowerIdle /\ LinIdle /\ TypeIdle

FoldSet(tag, left, right, r) ==
    /\ e_in' = [tag |-> tag, left |-> left, right |-> right]
    /\ e_out' = r.value
    /\ e_diags' = r.diags
    /\ UNCHANGED e_pc
    /\ UNCHANGED notExprVars

\* analyze_value (2064) on an integer literal, with the hint of its context.
FoldInt ==
    /\ e_pc = "fold"
    /\ e_out.tag # "crashed"
    /\ \E i \in 0 .. INT64_MAX, hint \in IntTypes :
          FoldSet("RIR_INT", NoOperand, NoOperand, AnalyzeInt(i, hint))

\* A unary + or - whose operand is the constant analysed last.
FoldUnArithmetic ==
    /\ e_pc = "fold"
    /\ e_out.tag = "VAL_CONST_INT"
    /\ \E tag \in UnTags :
          FoldSet(tag, e_out, NoOperand, AnalyzeUnArithmetic(tag, e_out))

\* A binary operation whose left operand is the constant analysed last and
\* whose right operand is a literal or a negated literal, analysed with the
\* type of the left operand as its hint.
FoldBinArithmetic ==
    /\ e_pc = "fold"
    /\ e_out.tag = "VAL_CONST_INT"
    /\ \E tag \in BinTags, i \in 0 .. INT64_MAX, sign \in UnTags :
          \E right \in {AnalyzeUnArithmetic(sign, AnalyzeInt(i, e_out.type).value).value} :
             \E r \in AnalyzeBinArithmetic(tag, e_out, right) :
                FoldSet(tag, e_out, right, r)

FoldNext ==
    \/ FoldInt
    \/ FoldUnArithmetic
    \/ FoldBinArithmetic

SpecFold == FoldInit /\ [][FoldNext]_vars

\* Every constant has a value of its type.
OperandsInType ==
    /\ e_in.left.tag = "VAL_CONST_INT" => IntFitsInType(e_in.left.i, e_in.left.type)
    /\ e_in.right.tag = "VAL_CONST_INT" => IntFitsInType(e_in.right.i, e_in.right.type)

\* The result of the operation folded last, in the integers.
Exact ==
    IF e_in.tag = "TIR_PLUS" THEN e_in.left.i
    ELSE IF e_in.tag = "TIR_MINUS" THEN -e_in.left.i
    ELSE Arith(e_in.tag, e_in.left.i, e_in.right.i)

FoldOverflows ==
    \/ e_in.tag \in {"TIR_DIV", "TIR_MOD"} /\ e_in.right.i = 0
    \/ ~(e_in.tag \in {"TIR_DIV", "TIR_MOD"} /\ e_in.right.i = 0)
          /\ ~IntFitsInType(Exact, e_in.left.type)

\* C11: an operation +, -, *, /, % or unary minus on constants of one
\* integer type T folds to the constant of type T with the exact result when
\* that result is a value of T, and otherwise (division or remainder by zero
\* included) reports exactly ERROR_CONST_INT_OVERFLOW and yields no constant.
C11_FoldingSound ==
    (/\ e_pc = "fold"
     /\ e_in.tag \in UnTags \cup BinTags
     /\ OperandsInType
     /\ e_in.tag \in BinTags => e_in.left.type = e_in.right.type)
        => IF FoldOverflows
           THEN e_out = null_value /\ e_diags = {"ERROR_CONST_INT_OVERFLOW"}
           ELSE e_out = NewIntConstant(e_in.left.type, Exact) /\ e_diags = {}

(***************************************************************************)
(* 7. Implicit conversions: apply_implicit_conversion (type-analysis.c)    *)
(*    and match_types (data/tir.c)                                         *)
(***************************************************************************)
\* A type is written as the structure its id is interned for; null_type is
\* the id 0.
null_type == [tag |-> "none"]

Prim(name) == [tag |-> "TYPE_PRIMITIVE", name |-> name, inner |-> null_type,
               index |-> null_type]

Unary(tag, inner) == [tag |-> tag, name |-> "", inner |-> inner, index |-> null_type]

ArrayLengthType(n) == [tag |-> "TYPE_ARRAY_LENGTH", name |-> n, inner |-> null_type,
                       index |-> null_type]

ArrayOf(index, elem) == [tag |-> "TYPE_ARRAY", name |-> "", inner |-> elem, index |-> index]

PointerTags == {"TYPE_PTR", "TYPE_PTR_MUT", "TYPE_MULTIPTR", "TYPE_MULTIPTR_MUT"}

\* The types a value is provided with or wanted as: primitives, an array, a
\* tagged type, and pointers and slices to a primitive, an array or a pointer.
Pointees ==
    {Prim("i32"), Prim("byte"), ArrayOf(ArrayLengthType("4"), Prim("i32")),
     Unary("TYPE_PTR_MUT", Prim("i32"))}

ConvTypes ==
    {Prim("i32"), Prim("byte"), ArrayOf(ArrayLengthType("4"), Prim("i32")),
     Unary("TYPE_TAGGED", Prim("i32"))}
        \cup {Unary(tag, inner) : tag \in PointerTags, inner \in Pointees}

\* remove_pointer (519-526), remove_slice (528-535), remove_tags (575-581).
RemovePointer(type) ==
    IF type.tag \in {"TYPE_PTR", "TYPE_PTR_MUT"} THEN type.inner ELSE null_type

RemoveSlice(type) ==
    IF type.tag \in {"TYPE_MULTIPTR", "TYPE_MULTIPTR_MUT"} THEN type.inner ELSE null_type

RemoveTags(type) == IF type.tag = "TYPE_TAGGED" THEN type.inner ELSE type

\* TypeMatcher (data/tir.h:170-186) and the macros match_T, match_array.
Matcher(match_type, extra, inner) ==
    [match_type |-> match_type, extra |-> extra, inner |-> inner]

match_ignore == 0

match_T(extra) == Matcher("TYPE_MATCH_T", extra, <<>>)

match_array(I, E, extra) == Matcher("TYPE_MATCH_ARRAY", extra, <<I, E>>)

Matched(ok, results) == [ok |-> ok, results |-> results]

\* match_types_single (1100-1174): results is written even when the match
\* fails later.
RECURSIVE MatchTypesSingle(_, _, _)
MatchTypesSingle(results, type, matcher) ==
    IF type = null_type THEN Matched(FALSE, results)
    ELSE IF matcher.extra # 0 /\ results[matcher.extra] # null_type
                              /\ results[matcher.extra] # type
    THEN Matched(FALSE, results)
    ELSE Only({
        CASE matcher.match_type = "TYPE_MATCH_T" -> Matched(TRUE, bound)
          [] matcher.match_type = "TYPE_MATCH_BYTE" -> Matched(type = Prim("byte"), bound)
          [] matcher.match_type = "TYPE_MATCH_ARRAY" ->
                IF type.tag # "TYPE_ARRAY" THEN Matched(FALSE, bound)
                ELSE Only({IF ~first.ok THEN first
                           ELSE MatchTypesSingle(first.results, type.inner, matcher.inner[2]) :
                             first \in {MatchTypesSingle(bound, type.index, matcher.inner[1])}})
          [] matcher.match_type = "TYPE_MATCH_ANY_POINTER" ->
                MatchTypesSingle(bound, RemovePointer(type), matcher.inner[1])
          [] matcher.match_type = "TYPE_MATCH_ANY_SLICE" ->
                MatchTypesSingle(bound, RemoveSlice(type), matcher.inner[1])
          [] matcher.match_type = "TYPE_MATCH_POINTER" ->
                IF type.tag # "TYPE_PTR" THEN Matched(FALSE, bound)
                ELSE MatchTypesSingle(bound, RemovePointer(type), matcher.inner[1])
          [] matcher.match_type = "TYPE_MATCH_SLICE" ->
                IF type.tag # "TYPE_MULTIPTR" THEN Matched(FALSE, bound)
                ELSE MatchTypesSingle(bound, RemoveSlice(type), matcher.inner[1])
          [] matcher.match_type = "TYPE_MATCH_MUT_POINTER" ->
                IF type.tag # "TYPE_PTR_MUT" THEN Matched(FALSE, bound)
                ELSE MatchTypesSingle(bound, RemovePointer(type), matcher.inner[1])
          [] matcher.match_type = "TYPE_MATCH_MUT_SLICE" ->
                IF type.tag # "TYPE_MULTIPTR_MUT" THEN Matched(FALSE, bound)
                ELSE MatchTypesSingle(bound, RemoveSlice(type), matcher.inner[1])
          [] matcher.match_type = "TYPE_MATCH_TAGGED" ->
                IF type.tag # "TYPE_TAGGED" THEN Matched(FALSE, bound)
                ELSE MatchTypesSingle(bound, RemoveTags(type), matcher.inner[1]) :
        bound \in {IF matcher.extra # 0 THEN [results EXCEPT ![matcher.extra] = type]
                   ELSE results}})

\* match_types (1176-1183) with count = 2.
MatchTypes(results, types, matchers) ==
    Only({IF ~first.ok THEN first
          ELSE MatchTypesSingle(first.results, types[2], matchers[2]) :
            first \in {MatchTypesSingle(results, types[1], matchers[1])}})

\* The blocks of apply_implicit_conversion (258-378), in order: the two
\* matchers and the instruction emitted.
Rule(provided, wanted, tag) == [matchers |-> <<provided, wanted>>, tag |-> tag]

ConversionRules ==
    <<Rule(Matcher("TYPE_MATCH_MUT_POINTER", 0, <<match_array(match_T(2), match_T(1), match_ignore)>>),
           Matcher("TYPE_MATCH_MUT_SLICE", 0, <<match_T(1)>>), "TIR_ARRAY_TO_SLICE"),
      Rule(Matcher("TYPE_MATCH_ANY_POINTER", 0, <<match_array(match_T(2), match_T(1), match_ignore)>>),
           Matcher("TYPE_MATCH_SLICE", 0, <<match_T(1)>>), "TIR_ARRAY_TO_SLICE"),
      Rule(Matcher("TYPE_MATCH_MUT_POINTER", 0, <<match_T(1)>>),
           Matcher("TYPE_MATCH_POINTER", 0, <<match_T(1)>>), "TIR_NOP"),
      Rule(Matcher("TYPE_MATCH_MUT_SLICE", 0, <<match_T(1)>>),
           Matcher("TYPE_MATCH_SLICE", 0, <<match_T(1)>>), "TIR_NOP"),
      Rule(Matcher("TYPE_MATCH_MUT_POINTER", 0, <<match_T(1)>>),
           Matcher("TYPE_MATCH_MUT_POINTER", 0, <<Matcher("TYPE_MATCH_BYTE", 0, <<>>)>>),
           "TIR_PTR_CAST"),
      Rule(Matcher("TYPE_MATCH_ANY_POINTER", 0, <<match_T(1)>>),
           Matcher("TYPE_MATCH_POINTER", 0, <<Matcher("TYPE_MATCH_BYTE", 0, <<>>)>>),
           "TIR_PTR_CAST"),
      Rule(Matcher("TYPE_MATCH_TAGGED", 0, <<match_T(1)>>), match_T(1), "TIR_NOP")>>

Converted(rule, tag, diags) == [rule |-> rule, tag |-> tag, diags |-> diags]

\* apply_implicit_conversion 254-381 from block i on; t is the results array
\* declared once at 255.
RECURSIVE TryRules(_, _, _, _)
TryRules(i, t, provided, wanted_type) ==
    IF i > Len(ConversionRules)
    THEN Converted(0, "null_value", {"ERROR_EXPECTED_VALUE_TYPE"})
    ELSE Only({IF r.ok /\ r.results[1] # null_type
               THEN Converted(i, ConversionRules[i].tag, {})
               ELSE TryRules(i + 1, r.results, provided, wanted_type) :
                 r \in {MatchTypes(t, <<provided, wanted_type>>, ConversionRules[i].matchers)}})

\* apply_implicit_conversion (243-383).
ApplyImplicitConversion(provided, wanted_type) ==
    IF wanted_type = null_type \/ provided = wanted_type
    THEN Converted(0, "value", {})
    ELSE TryRules(1, <<null_type, null_type>>, provided, wanted_type)

\* expect_value_type (385-388) is about to convert a value of type
\* e_in.provided to e_in.wanted_type.
ConvInit ==
    /\ e_pc = "expect_value_type"
    /\ e_in \in [provided : ConvTypes, wanted_type : ConvTypes]
    /\ e_out = Converted(0, "none", {})
    /\ e_diags = {}
    /\ DrvIdle /\ RoleIdle /\ LowerIdle /\ LinIdle /\ TypeIdle

ExpectValueType ==
    /\ e_pc = "expect_value_type"
    /\ \E r \in {ApplyImplicitConversion(e_in.provided, e_in.wanted_type)} :
          /\ e_out' = r
          /\ e_diags' = r.diags
    /\ e_pc' = "returned"
    /\ UNCHANGED e_in
    /\ UNCHANGED notExprVars

ConvNext == ExpectValueType

SpecConv == ConvInit /\ [][ConvNext]_vars

\* (P, W) matches rule i for some instantiation of the rule's T and N.
RuleMatches(i, provided, wanted_type) ==
    LET r == MatchTypes(<<null_type, null_type>>, <<provided, wanted_type>>,
                        ConversionRules[i].matchers)
    IN r.ok /\ r.results[1] # null_type

\* C12: for P # W the first rule that (P, W) matches is the one emitted, and
\* ERROR_EXPECTED_VALUE_TYPE is reported only when (P, W) matches no rule.
C12_FirstMatchingRule ==
    (e_pc = "returned" /\ e_in.provided # e_in.wanted_type) =>
        LET matching == {i \in DOMAIN ConversionRules :
                            RuleMatches(i, e_in.provided, e_in.wanted_type)}
        IN IF matching = {}
           THEN e_diags = {"ERROR_EXPECTED_VALUE_TYPE"}
           ELSE /\ e_diags = {}
                /\ e_out.rule = CHOOSE i \in matching : \A j \in matching : i <= j

(***************************************************************************)
(* 8. Value categories: get_value_category (data/tir.c) on the values that *)
(*    analyze_deref, analyze_struct_access and analyze_index build         *)
(***************************************************************************)
MaxExprDepth == 3

\* struct S { f i32, a i32[4], n *mut S, c *S }; the fields of S by name.
StructS == [tag |-> "TYPE_STRUCT", name |-> "S", inner |-> null_type, index |-> null_type]

I32x4 == ArrayOf(ArrayLengthType("4"), Prim("i32"))

StructFields ==
    [f |-> Prim("i32"), a |-> I32x4, n |-> Unary("TYPE_PTR_MUT", StructS),
     c |-> Unary("TYPE_PTR", StructS)]

FieldNames == {"f", "a", "n", "c", "length", "data"}

\* The types of the locals.
LocalTypes ==
    {StructS, I32x4, Unary("TYPE_PTR", StructS), Unary("TYPE_PTR_MUT", StructS),
     Unary("TYPE_PTR", I32x4), Unary("TYPE_PTR_MUT", I32x4),
     Unary("TYPE_MULTIPTR", Prim("i32")), Unary("TYPE_MULTIPTR_MUT", Prim("i32")),
     Unary("TYPE_PTR_MUT", Prim("i32"))}

\* A value: its tag, its type and, for a temporary, the instruction that
\* computes it (tir) with the instruction's left operand.
no_value == [tag |-> "none"]

Value(tag, type, tir, operand) ==
    [tag |-> tag, type |-> type, tir |-> tir, operand |-> operand]

error_value == Value("VAL_ERROR", null_type, "", no_value)

\* new_unary_inst / new_binary_inst: a temporary.
NewInst(tir, type, operand) == Value("VAL_TEMPORARY", type, tir, operand)

\* get_value_category 1516-1523: the category of a TIR_DEREF of operand.
DerefCategoryPlace(operand) == "VALUE_PLACE"

DerefCategory(operand) ==
    IF operand.type.tag = "TYPE_PTR_MUT" THEN "VALUE_MUTABLE_PLACE" ELSE "VALUE_PLACE"

\* get_value_category (1442-1541).
RECURSIVE GetValueCategory(_)
GetValueCategory(value) ==
    CASE value.tag = "VAL_ERROR" -> "VALUE_INVALID"
      [] value.tag = "VAL_CONST_INT" -> "VALUE_TEMPORARY"
      [] value.tag = "VAL_VARIABLE" -> "VALUE_PLACE"
      [] value.tag = "VAL_MUTABLE_VARIABLE" -> "VALUE_MUTABLE_PLACE"
      [] value.tag = "VAL_TEMPORARY" ->
            CASE value.tir = "TIR_DEREF" -> DerefCategory(value.operand)
              [] value.tir = "TIR_INDEX" ->
                    IF value.operand.type.tag = "TYPE_PTR" THEN "VALUE_PLACE"
                    ELSE IF value.operand.type.tag = "TYPE_PTR_MUT"
                    THEN "VALUE_MUTABLE_PLACE"
                    ELSE GetValueCategory(value.operand)
              [] value.tir = "TIR_ACCESS" -> GetValueCategory(value.operand)
              [] OTHER -> "VALUE_TEMPORARY"

\* implicit_pointer_deref (type-analysis.c:1348-1355).
ImplicitPointerDeref(value) ==
    IF RemovePointer(value.type) = null_type THEN value
    ELSE NewInst("TIR_DEREF", RemovePointer(value.type), value)

\* analyze_deref (940-952).
AnalyzeDeref(operand_value) ==
    IF RemovePointer(operand_value.type) = null_type
    THEN Returned1(error_value, {"ERROR_DEREF_UNEXPECTED_OPERAND"})
    ELSE Returned1(NewInst("TIR_DEREF", RemovePointer(operand_value.type), operand_value), {})

\* analyze_struct_access (1430-1479) with resolve_length (1403-1419) and
\* resolve_slice_data (1421-1428); v is the operand after
\* implicit_pointer_deref.
StructAccess(v, field_name) ==
    IF RemoveSlice(v.type) # null_type
    THEN IF field_name = "length"
         THEN Returned1(NewInst("TIR_ACCESS", Prim("isize"), v), {})
         ELSE IF field_name = "data"
         THEN Returned1(NewInst("TIR_ACCESS",
                                Unary(IF v.type.tag = "TYPE_MULTIPTR" THEN "TYPE_PTR"
                                      ELSE "TYPE_PTR_MUT", v.type.inner), v), {})
         ELSE Returned1(error_value, {"ERROR_UNDEFINED_TYPE_FIELD"})
    ELSE IF v.type.tag = "TYPE_ARRAY"
    THEN IF field_name = "length"
         THEN Returned1(Value("VAL_CONST_INT", Prim("isize"), "", no_value), {})
         ELSE Returned1(error_value, {"ERROR_UNDEFINED_TYPE_FIELD"})
    ELSE IF v.type.tag # "TYPE_STRUCT" \/ field_name \notin DOMAIN StructFields
    THEN Returned1(error_value, {"ERROR_UNDEFINED_TYPE_FIELD"})
    ELSE Returned1(NewInst("TIR_ACCESS", StructFields[field_name], v), {})

AnalyzeStructAccess(operand_value, field_name) ==
    StructAccess(ImplicitPointerDeref(operand_value), field_name)

\* analyze_index (1741-1770) with one argument of type isize; v is the
\* operand after implicit_pointer_deref.
Index(v) ==
    IF v.type.tag \notin {"TYPE_ARRAY", "TYPE_MULTIPTR", "TYPE_MULTIPTR_MUT"}
    THEN Returned1(error_value, {"ERROR_INDEX_OPERAND"})
    ELSE Returned1(NewInst("TIR_INDEX", v.type.inner, v), {})

AnalyzeIndex(operand_value) == Index(ImplicitPointerDeref(operand_value))

\* expect_mutable_place (216-241) on the analysed value.
ExpectMutablePlace(result) ==
    IF GetValueCategory(result) = "VALUE_INVALID" THEN Returned1(error_value, {})
    ELSE IF GetValueCategory(result) = "VALUE_MUTABLE_PLACE" THEN Returned1(result, {})
    ELSE Returned1(error_value, {"ERROR_EXPECTED_MUTABLE_PLACE"})

\* analyze_assign (1315-1324) on `left = right`, where right is a value of
\* the type of left, so that expect_value_type reports nothing, and the
\* type has a known size.
AnalyzeAssign(left) ==
    Only({ Returned1(NewInst("TIR_ASSIGN", Prim("void"), left_value.value), left_value.diags)
           : left_value \in {ExpectMutablePlace(left)} })

RECURSIVE ValueDepth(_)
ValueDepth(value) ==
    IF value.tag = "VAL_TEMPORARY" THEN 1 + ValueDepth(value.operand) ELSE 0

NoOperation == [op |-> "none", operand |-> no_value, field_name |-> ""]

\* An expression is analysed bottom-up; e_out is the value of the
\* subexpression analysed last, e_in the operation that built it.
PlaceInit ==
    /\ e_pc = "place"
    /\ e_in = NoOperation
    /\ e_out = error_value
    /\ e_diags = {}
    /\ DrvIdle /\ RoleIdle /\ LowerIdle /\ LinIdle /\ TypeIdle

PlaceSet(op, operand, field_name, r) ==
    /\ e_in' = [op |-> op, operand |-> operand, field_name |-> field_name]
    /\ e_out' = r.value
    /\ e_diags' = r.diags
    /\ UNCHANGED e_pc
    /\ UNCHANGED notExprVars

\* analyze_value on the name of a local declared with let or mut.
PlaceLocal ==
    /\ e_pc = "place"
    /\ \E tag \in {"VAL_VARIABLE", "VAL_MUTABLE_VARIABLE"}, type \in LocalTypes :
          PlaceSet("local", no_value, "", Returned1(Value(tag, type, "", no_value), {}))

PlaceOperand == e_pc = "place" /\ e_out.tag # "VAL_ERROR" /\ ValueDepth(e_out) < MaxExprDepth

\* `*v`, `v.f` and `v[i]` on the value v analysed last.
PlaceDeref ==
    /\ PlaceOperand
    /\ PlaceSet("deref", e_out, "", AnalyzeDeref(e_out))

PlaceStructAccess ==
    /\ PlaceOperand
    /\ \E field_name \in FieldNames :
          PlaceSet("access", e_out, field_name, AnalyzeStructAccess(e_out, field_name))

PlaceIndex ==
    /\ PlaceOperand
    /\ PlaceSet("index", e_out, "", AnalyzeIndex(e_out))

\* `v = w` on the value v analysed last.
PlaceAssign ==
    /\ PlaceOperand
    /\ PlaceSet("assign", e_out, "", AnalyzeAssign(e_out))

PlaceNext ==
    \/ PlaceLocal
    \/ PlaceDeref
    \/ PlaceStructAccess
    \/ PlaceIndex
    \/ PlaceAssign

SpecPlace == PlaceInit /\ [][PlaceNext]_vars

\* The operand v of the operation analysed last is a mutable place.
OperandIsMutablePlace ==
    /\ e_pc = "place"
    /\ e_in.op \in {"deref", "access", "index"}
    /\ GetValueCategory(e_in.operand) = "VALUE_MUTABLE_PLACE"

StructFieldAccessed == e_in.op = "access" /\ e_in.field_name \in DOMAIN StructFields

\* C13 (as amended): v.f is a mutable place when v is a mutable place of
\* struct type or v has a pointer-to-mut type, and only a place when v has a
\* pointer-to-const type (the access dereferences v); *v is a mutable place
\* when v has a pointer-to-mut type; v[i] is a mutable place when v is a
\* mutable place of array type or of mutable-slice type, or a pointer-to-mut
\* to an array.
C13_PlaceCategories ==
    e_pc = "place" =>
        /\ (/\ StructFieldAccessed
            /\ \/ OperandIsMutablePlace /\ e_in.operand.type = StructS
               \/ e_in.operand.type = Unary("TYPE_PTR_MUT", StructS))
              => GetValueCategory(e_out) = "VALUE_MUTABLE_PLACE"
        /\ (StructFieldAccessed /\ e_in.operand.type = Unary("TYPE_PTR", StructS))
              => GetValueCategory(e_out) = "VALUE_PLACE"
        /\ (e_in.op = "deref" /\ e_in.operand.type.tag = "TYPE_PTR_MUT")
              => GetValueCategory(e_out) = "VALUE_MUTABLE_PLACE"
        /\ (/\ e_in.op = "index"
            /\ \/ /\ OperandIsMutablePlace
                  /\ e_in.operand.type.tag \in {"TYPE_ARRAY", "TYPE_MULTIPTR_MUT"}
               \/ e_in.operand.type = Unary("TYPE_PTR_MUT", I32x4))
              => GetValueCategory(e_out) = "VALUE_MUTABLE_PLACE"

\* C13 witness: a field was accessed on a mutable place that is itself the
\* result of an operation, and the access is a mutable place.
C13_NestedMutableAccess ==
    /\ OperandIsMutablePlace
    /\ StructFieldAccessed
    /\ e_in.operand.tag = "VAL_TEMPORARY"
    /\ GetValueCategory(e_out) = "VALUE_MUTABLE_PLACE"

\* C13 as stated: whenever v is a mutable place, so is the field v.f.
C13_FieldOfMutablePlace ==
    (OperandIsMutablePlace /\ StructFieldAccessed /\ e_out.tag # "VAL_ERROR")
        => GetValueCategory(e_out) = "VALUE_MUTABLE_PLACE"

\* The value analysed last is v[i] with v of the given slice type.
SliceIndexed(value, tag) ==
    value.tag = "VAL_TEMPORARY" /\ value.tir = "TIR_INDEX" /\ value.operand.type.tag = tag

\* C29: an element reached by indexing an immutable slice is never a mutable
\* place and an element reached by indexing a mutable slice always is one,
\* whatever the mutability of the variable that holds the slice; so no
\* assignment through an immutable slice passes expect_mutable_place.
C29_SliceElementMutability ==
    e_pc = "place" =>
        /\ (e_in.op = "index" /\ SliceIndexed(e_out, "TYPE_MULTIPTR"))
              => GetValueCategory(e_out) # "VALUE_MUTABLE_PLACE"
        /\ (e_in.op = "index" /\ SliceIndexed(e_out, "TYPE_MULTIPTR_MUT"))
              => GetValueCategory(e_out) = "VALUE_MUTABLE_PLACE"
        /\ (e_in.op = "assign" /\ SliceIndexed(e_in.operand, "TYPE_MULTIPTR"))
              => "ERROR_EXPECTED_MUTABLE_PLACE" \in e_diags


(***************************************************************************)
(* Section 9.  Built-in macros behind a constant (role-analysis.c).        *)
(*                                                                         *)
(* One global definition `const k = <builtin>` is analysed by analyze_def  *)
(* and then the expression `name[...]` is analysed by analyze_index, where *)
(* name is either the built-in's own name or the constant k.  The RIR      *)
(* datum of a node is one 32-bit integer whose meaning depends on the tag  *)
(* (data/rir.h).  The id of the first built-in macro is drawn from        *)
(* 0 .. MaxFirstMacro and the six macros follow each other in the order    *)
(* in which main.c registers them.                                         *)
(***************************************************************************)
MaxFirstMacro == 3

BuiltinMacros ==
    <<"BUILTIN_ALIGNOF", "BUILTIN_SIZEOF", "BUILTIN_ZERO_EXTEND", "BUILTIN_SLICE",
      "BUILTIN_AFFINE", "BUILTIN_ARRAY_LENGTH_TYPE">>

BuiltinTypes == {"BUILTIN_i32", "BUILTIN_SIZE_TAG"}

IndexedBuiltins == Range(BuiltinMacros) \cup BuiltinTypes

\* The integer of a built-in: macros from `first` on, the other built-ins after them.
BuiltinId(first, builtin) ==
    IF builtin \in Range(BuiltinMacros)
    THEN first + (CHOOSE i \in DOMAIN BuiltinMacros : BuiltinMacros[i] = builtin) - 1
    ELSE first + Len(BuiltinMacros) + (IF builtin = "BUILTIN_i32" THEN 0 ELSE 1)

\* The role analyze_id gives to a built-in name (the switch on symbol.builtin).
BuiltinRole(builtin) ==
    IF builtin \in Range(BuiltinMacros) THEN "ROLE_BUILTIN_MACRO"
    ELSE IF builtin = "BUILTIN_SIZE_TAG" THEN "ROLE_TAG_TYPE"
    ELSE "ROLE_TYPE"

Rir(tag, data) == [tag |-> tag, data |-> data]

NoRir == Rir("RIR_ROOT", 0)

\* analyze_const on `const k = <builtin>`: the role and the RIR of the definition.
AnalyzeConstBuiltin(first, builtin) ==
    Only({ IF role \in {"ROLE_INVALID", "ROLE_BUILTIN_MACRO", "ROLE_MACRO"}
           THEN [role |-> role, rir |-> Rir("RIR_ROOT", 0), diags |-> {}]
           ELSE IF role = "ROLE_TYPE"
           THEN [role |-> role, rir |-> Rir("RIR_TYPE_ALIAS", 0), diags |-> {}]
           ELSE IF role = "ROLE_VALUE"
           THEN [role |-> role, rir |-> Rir("RIR_CONST", 0), diags |-> {}]
           ELSE [role |-> "ROLE_INVALID", rir |-> Rir("RIR_ROOT", 0),
                 diags |-> {"ERROR_CONST_INIT"}]
           : role \in {BuiltinRole(builtin)} })

\* analyze_id on the operand: a built-in name, or the global constant
\* (resolve_global stores the definition's index as the datum).
AnalyzeIdOperand(in, rir_refs) ==
    IF in.symbol = "SYM_BUILTIN"
    THEN [role |-> BuiltinRole(in.builtin),
          rir |-> Rir("RIR_BUILTIN_ID", BuiltinId(in.first, in.builtin))]
    ELSE [role |-> rir_refs, rir |-> Rir("RIR_GLOBAL_ID", in.global)]

MacroResult(status, role, operand, call, diags) ==
    [status |-> status, role |-> role, operand |-> operand, call |-> call, diags |-> diags]

\* analyze_builtin_macro: the datum of the operand is read as a built-in id.
AnalyzeBuiltinMacro(first, operand) ==
    Only({ IF macro \in {BuiltinId(first, "BUILTIN_ALIGNOF"), BuiltinId(first, "BUILTIN_SIZEOF"),
                         BuiltinId(first, "BUILTIN_ZERO_EXTEND"), BuiltinId(first, "BUILTIN_SLICE")}
           THEN MacroResult("returned", "ROLE_VALUE", operand, Rir("RIR_CALL_BUILTIN", macro), {})
           ELSE IF macro \in {BuiltinId(first, "BUILTIN_AFFINE"),
                              BuiltinId(first, "BUILTIN_ARRAY_LENGTH_TYPE")}
           THEN MacroResult("returned", "ROLE_TYPE", operand, Rir("RIR_CALL_BUILTIN", macro), {})
           ELSE MacroResult("aborted", "", operand, Rir("RIR_CALL_BUILTIN", macro), {})
           : macro \in {operand.data} })

\* analyze_index on `name[...]` with well-formed arguments.
AnalyzeIndexOperand(in, rir_refs) ==
    Only({ IF id.role = "ROLE_INVALID"
           THEN MacroResult("returned", "ROLE_INVALID", id.rir, NoRir, {})
           ELSE IF id.role = "ROLE_BUILTIN_MACRO"
           THEN AnalyzeBuiltinMacro(in.first, id.rir)
           ELSE IF id.role = "ROLE_TAG_TYPE"
           THEN MacroResult("returned", "ROLE_TYPE", id.rir, Rir("RIR_TAGGED_TYPE", 0), {})
           ELSE IF id.role \in {"ROLE_VALUE", "ROLE_MULTIVALUE"}
           THEN MacroResult("returned", "ROLE_VALUE", id.rir, Rir("RIR_INDEX", 0), {})
           ELSE MacroResult("returned", "ROLE_INVALID", id.rir, NoRir,
                            {"ERROR_INDEX_OPERAND_ROLE"})
           : id \in {AnalyzeIdOperand(in, rir_refs)} })

MacroInit ==
    /\ e_pc = "def"
    /\ e_in \in [symbol : {"SYM_BUILTIN", "SYM_GLOBAL"}, builtin : IndexedBuiltins,
                 global : 0 .. (MaxDefs - 1), first : 0 .. MaxFirstMacro]
    /\ e_out = MacroResult("", "ROLE_NOT_VISITED", NoRir, NoRir, {})
    /\ e_diags = {}
    /\ DrvIdle /\ RoleIdle /\ LowerIdle /\ LinIdle /\ TypeIdle

\* analyze_def on the constant: its role is stored in rir_refs.
MacroAnalyzeDef ==
    /\ e_pc = "def"
    /\ \E r \in {AnalyzeConstBuiltin(e_in.first, e_in.builtin)} :
          /\ e_out' = [e_out EXCEPT !.role = r.role, !.operand = r.rir]
          /\ e_diags' = r.diags
    /\ e_pc' = "index"
    /\ UNCHANGED e_in
    /\ UNCHANGED notExprVars

\* analyze_index on the expression that names the built-in or the constant.
MacroAnalyzeIndex ==
    /\ e_pc = "index"
    /\ \E r \in {AnalyzeIndexOperand(e_in, e_out.role)} :
          /\ e_out' = r
          /\ e_diags' = e_diags \cup r.diags
    /\ e_pc' = IF e_out'.status = "aborted" THEN "aborted" ELSE "done"
    /\ UNCHANGED e_in
    /\ UNCHANGED notExprVars

MacroNext ==
    \/ MacroAnalyzeDef
    \/ MacroAnalyzeIndex

SpecMacro == MacroInit /\ [][MacroNext]_vars

\* C16: user-input errors never abort the process: every program that
\* parses makes each analysis stage succeed or report diagnostics and return
\* normally, in particular indexing a constant that aliases a built-in macro.
C16_UserInputNeverAborts == e_pc # "aborted"


(***************************************************************************)
(* Section 10.  Calls of generic functions (role-analysis.c analyze_block, *)
(* type-analysis.c analyze_call, data/tir.c match_type_parameters).        *)
(*                                                                         *)
(* A function `function g[T](x P) -> R { s }` with one parameter and a     *)
(* body of one statement s over x, and one call `g(a)` of it.  The role    *)
(* stage analyses the body, the type stage the return statement and the    *)
(* call.                                                                   *)
(***************************************************************************)
TypeParameter(n) == [tag |-> "TYPE_TYPE_PARAMETER", name |-> n, inner |-> null_type,
                     index |-> null_type]

TypeParameterNames == {"T"}

type_i64 == Prim("i64")

\* The parameter and return types of the function, and the arguments.
GenericTypes ==
    {TypeParameter("T"), Unary("TYPE_PTR", TypeParameter("T")), type_i64, Prim("i8")}

IntLiterals == {2, 5}

Arg(kind, i, type) == [kind |-> kind, i |-> i, type |-> type]

CallArgs ==
    {Arg("int", i, null_type) : i \in IntLiterals}
        \cup {Arg("value", 0, type) : type \in {type_i64, Prim("i8"), Unary("TYPE_PTR", type_i64)}}

\* analyze_value on an argument with a hint: an integer literal takes the
\* hint when it is an integer type the literal fits in, and i64 otherwise.
ArgType(arg, hint) ==
    IF arg.kind = "int"
    THEN IF hint.tag = "TYPE_PRIMITIVE" /\ hint.name \in IntTypes /\ IntFitsInType(arg.i, hint.name)
         THEN hint
         ELSE type_i64
    ELSE arg.type

Matched1(ok, results) == [ok |-> ok, results |-> results]

\* match_type_parameters: results is written even when the match fails later.
RECURSIVE MatchTypeParameters(_, _, _)
MatchTypeParameters(results, param, arg) ==
    IF param = arg THEN Matched1(TRUE, results)
    ELSE IF param.tag = "TYPE_TYPE_PARAMETER"
    THEN IF results[param.name] = null_type
         THEN Matched1(TRUE, [results EXCEPT ![param.name] = arg])
         ELSE Matched1(results[param.name] = arg, results)
    ELSE IF param.tag # arg.tag THEN Matched1(FALSE, results)
    ELSE IF param.tag = "TYPE_PRIMITIVE" THEN Matched1(TRUE, results)
    ELSE IF param.tag \in PointerTags THEN MatchTypeParameters(results, param.inner, arg.inner)
    ELSE Matched1(FALSE, results)

RECURSIVE ReplaceTypeParameters(_, _)
ReplaceTypeParameters(args, generic) ==
    IF generic.tag = "TYPE_TYPE_PARAMETER" THEN args[generic.name]
    ELSE IF generic.tag \in PointerTags
    THEN Only({ Unary(generic.tag, elem) : elem \in {ReplaceTypeParameters(args, generic.inner)} })
    ELSE generic

\* The type parameters that occur in a type.
RECURSIVE TypeParametersOf(_)
TypeParametersOf(type) ==
    IF type.tag = "TYPE_TYPE_PARAMETER" THEN {type.name}
    ELSE IF type.tag \in PointerTags THEN TypeParametersOf(type.inner)
    ELSE {}

CallResult(value, type_args, arg_type, diags) ==
    [value |-> value, type_args |-> type_args, arg_type |-> arg_type, diags |-> diags]

NoTypeArgs == [n \in TypeParameterNames |-> null_type]

\* analyze_call on `g(a)` where g has the function type (param) -> ret with
\* type_param_count type parameters.
AnalyzeCall(type_param_count, param, ret, arg) ==
    IF type_param_count # 0
    THEN Only({ IF ~r.ok
                THEN CallResult(error_value, r.results, ArgType(arg, param),
                                {"ERROR_TYPE_ARGUMENT_INFERENCE"})
                ELSE Only({ CallResult(
                                NewInst("TIR_CALL", ReplaceTypeParameters(r.results, ret), no_value),
                                r.results, ArgType(arg, param), conv.diags)
                            : conv \in {ApplyImplicitConversion(
                                            ArgType(arg, param),
                                            ReplaceTypeParameters(r.results, param))} })
                : r \in {MatchTypeParameters(NoTypeArgs, param, ArgType(arg, param))} })
    ELSE Only({ CallResult(NewInst("TIR_CALL", ret, no_value), NoTypeArgs, ArgType(arg, param),
                           conv.diags)
                : conv \in {ApplyImplicitConversion(ArgType(arg, param), param)} })

\* analyze_block on the body of the function: with a return type the last
\* statement has to be an expression statement.
AnalyzeBlock(implicit_ret, statement) ==
    IF implicit_ret
    THEN IF statement = "AST_EXPRESSION_STATEMENT"
         THEN [rir |-> "RIR_RETURN", diags |-> {}]
         ELSE [rir |-> "RIR_ROOT", diags |-> {"ERROR_EXPECTED_VALUE"}]
    ELSE IF statement = "AST_RETURN"
         THEN [rir |-> "RIR_RETURN", diags |-> {}]
         ELSE [rir |-> "RIR_EXPRESSION_STATEMENT", diags |-> {}]

\* analyze_return in the type stage on `return x`: x has the parameter's type.
AnalyzeReturn(param, ret) ==
    IF ret = Prim("void")
    THEN {"ERROR_RETURN_EXPECTED_VALUE"}
    ELSE ApplyImplicitConversion(param, ret).diags

GenericInit ==
    /\ e_pc = "block"
    /\ e_in \in [param : GenericTypes, ret : GenericTypes \cup {Prim("void")},
                 statement : {"AST_RETURN", "AST_EXPRESSION_STATEMENT"}, arg : CallArgs]
    /\ e_out = CallResult(error_value, NoTypeArgs, null_type, {})
    /\ e_diags = {}
    /\ DrvIdle /\ RoleIdle /\ LowerIdle /\ LinIdle /\ TypeIdle

GenericTypeParamCount == Cardinality(TypeParametersOf(e_in.param) \cup TypeParametersOf(e_in.ret))

\* Role stage: the body of the function.
GenericAnalyzeBlock ==
    /\ e_pc = "block"
    /\ e_diags' = e_diags \cup AnalyzeBlock(e_in.ret # Prim("void"), e_in.statement).diags
    /\ e_pc' = "return"
    /\ UNCHANGED <<e_in, e_out>>
    /\ UNCHANGED notExprVars

\* Type stage: the statement of the body, when the role stage made it a return.
GenericAnalyzeReturn ==
    /\ e_pc = "return"
    /\ e_diags' = e_diags \cup
          (IF AnalyzeBlock(e_in.ret # Prim("void"), e_in.statement).rir = "RIR_RETURN"
           THEN AnalyzeReturn(e_in.param, e_in.ret)
           ELSE {})
    /\ e_pc' = "call"
    /\ UNCHANGED <<e_in, e_out>>
    /\ UNCHANGED notExprVars

\* Type stage: the call.
GenericAnalyzeCall ==
    /\ e_pc = "call"
    /\ \E r \in {AnalyzeCall(GenericTypeParamCount, e_in.param, e_in.ret, e_in.arg)} :
          /\ e_out' = r
          /\ e_diags' = e_diags \cup r.diags
    /\ e_pc' = "done"
    /\ UNCHANGED e_in
    /\ UNCHANGED notExprVars

GenericNext ==
    \/ GenericAnalyzeBlock
    \/ GenericAnalyzeReturn
    \/ GenericAnalyzeCall

SpecGeneric == GenericInit /\ [][GenericNext]_vars

\* `function id[T](x T) -> T { return x }` called with an integer literal
\* that fits no narrower hint, as `id(42)`.
IdentityScenario ==
    /\ e_in.param = TypeParameter("T")
    /\ e_in.ret = TypeParameter("T")
    /\ e_in.statement = "AST_RETURN"
    /\ e_in.arg.kind = "int"

\* C17: `function id[T](x T) -> T { return x }` called as `id(42)` is
\* accepted with no error in any stage, T is pinned to i64 and the call is
\* one TIR call whose type is the specialised return type i64.
C17_IdentityInferred ==
    (IdentityScenario /\ e_pc = "done")
        => /\ e_diags = {}
           /\ e_out.type_args["T"] = type_i64
           /\ e_out.value.tir = "TIR_CALL"
           /\ e_out.value.type = type_i64

\* A type with a null type inside: a type parameter that was never bound.
RECURSIVE ContainsNull(_)
ContainsNull(type) ==
    IF type = null_type THEN TRUE
    ELSE IF type.tag \in PointerTags THEN ContainsNull(type.inner)
    ELSE FALSE

\* C30: a call of a generic function becomes a TIR call only if every type
\* parameter of the callee is pinned to a non-null type; otherwise the call
\* is rejected with ERROR_TYPE_ARGUMENT_INFERENCE, and no call with a null
\* or unsubstituted result type is produced.
C30_GenericCallPinned ==
    (e_pc = "done" /\ GenericTypeParamCount # 0)
        => IF \A n \in TypeParametersOf(e_in.param) \cup TypeParametersOf(e_in.ret) :
                 e_out.type_args[n] # null_type
           THEN e_out.value.tir = "TIR_CALL"
                   => /\ ~ContainsNull(e_out.value.type)
                      /\ TypeParametersOf(e_out.value.type) = {}
           ELSE /\ e_out.value = error_value
                /\ "ERROR_TYPE_ARGUMENT_INFERENCE" \in e_out.diags


(***************************************************************************)
(* Section 11.  Switches over an enum (type-analysis.c analyze_switch,     *)
(* validate_exhaustive_enum_switch).                                       *)
(*                                                                         *)
(* The discriminant has an enum type with EnumCount constants 0 ..         *)
(* EnumCount - 1.  An arm is a pattern, a constant of the enum or "else",  *)
(* and a well-typed value; the switch is analysed without a hint.          *)
(***************************************************************************)
EnumCount == 2

MaxArms == 3

EnumValues == 0 .. (EnumCount - 1)

else_pattern == EnumCount

ArmTypes == {Prim("void"), Prim("i32")}

Arms == [pattern : EnumValues \cup {else_pattern}, type : ArmTypes]

Switches == UNION {[1 .. n -> Arms] : n \in 1 .. MaxArms}

HasElse(arms) == \E i \in DOMAIN arms : arms[i].pattern = else_pattern

Covered(arms) == {arms[i].pattern : i \in DOMAIN arms} \ {else_pattern}

Repeated(arms) ==
    \E i, j \in DOMAIN arms :
        i < j /\ arms[i].pattern = arms[j].pattern /\ arms[i].pattern # else_pattern

\* validate_exhaustive_enum_switch: the diagnostics it reports.
ValidateExhaustiveEnumSwitch(arms) ==
    (IF Repeated(arms) THEN {"ERROR_DUPLICATE_SWITCH_CASE"} ELSE {})
        \cup (IF Covered(arms) = EnumValues /\ HasElse(arms)
              THEN {"ERROR_ELSE_CASE_UNREACHABLE"} ELSE {})
        \cup (IF Covered(arms) # EnumValues /\ ~HasElse(arms)
              THEN {"ERROR_SWITCH_NOT_EXHAUSTIVE"} ELSE {})

\* The loop of analyze_switch over the arms from i on: the result type and
\* whether the arms agree with it.
RECURSIVE SwitchArms(_, _, _, _)
SwitchArms(arms, i, result_type, consistent_types) ==
    IF i > Len(arms)
    THEN [result_type |-> result_type, consistent_types |-> consistent_types]
    ELSE Only({ SwitchArms(arms, i + 1, rt, consistent_types /\ arms[i].type = rt)
                : rt \in {IF result_type = null_type /\ consistent_types
                          THEN arms[i].type ELSE result_type} })

\* analyze_switch with hint null_type.
AnalyzeSwitch(arms) ==
    Only({ IF r.result_type = null_type
           THEN Returned1(error_value, {})
           ELSE IF ~r.consistent_types
           THEN Returned1(error_value, {"ERROR_SWITCH_INCOMPATIBLE_CASES"})
           ELSE Returned1(NewInst("TIR_SWITCH", r.result_type, no_value),
                          IF r.result_type # Prim("void")
                          THEN ValidateExhaustiveEnumSwitch(arms)
                          ELSE {})
           : r \in {SwitchArms(arms, 1, null_type, TRUE)} })

SwitchInit ==
    /\ e_pc = "switch"
    /\ e_in \in Switches
    /\ e_out = error_value
    /\ e_diags = {}
    /\ DrvIdle /\ RoleIdle /\ LowerIdle /\ LinIdle /\ TypeIdle

SwitchAnalyze ==
    /\ e_pc = "switch"
    /\ \E r \in {AnalyzeSwitch(e_in)} :
          /\ e_out' = r.value
          /\ e_diags' = r.diags
    /\ e_pc' = "done"
    /\ UNCHANGED e_in
    /\ UNCHANGED notExprVars

SwitchNext == SwitchAnalyze

SpecSwitch == SwitchInit /\ [][SwitchNext]_vars

ArmsAgree == \A i, j \in DOMAIN e_in : e_in[i].type = e_in[j].type

\* C18: for every switch over an enum, whatever the result type of its
\* arms, an uncovered constant without an else arm is reported with
\* ERROR_SWITCH_NOT_EXHAUSTIVE, an else arm after full coverage with
\* ERROR_ELSE_CASE_UNREACHABLE, and a repeated constant with
\* ERROR_DUPLICATE_SWITCH_CASE, and none of them is reported otherwise.
C18_EnumSwitchDiagnosed ==
    (e_pc = "done" /\ ArmsAgree)
        => /\ ("ERROR_SWITCH_NOT_EXHAUSTIVE" \in e_diags)
                  <=> (Covered(e_in) # EnumValues /\ ~HasElse(e_in))
           /\ ("ERROR_ELSE_CASE_UNREACHABLE" \in e_diags)
                  <=> (Covered(e_in) = EnumValues /\ HasElse(e_in))
           /\ ("ERROR_DUPLICATE_SWITCH_CASE" \in e_diags) <=> Repeated(e_in)

(***************************************************************************)
(* Section 12.  Linearity of types (data/tir.c type_is_linear,             *)
(* new_struct_type; type-analysis.c analyze_struct, analyze_struct_ctor).  *)
(*                                                                         *)
(* A type is a tag, the sequence of the types it is built from (the        *)
(* element of an array, pointer or linear type; the fields of a struct;    *)
(* the inner type of a tagged type followed by its arguments), and for a   *)
(* struct the is_linear flag and type_param_count of its layout.           *)
(***************************************************************************)
MaxFields == 2

Ty(tag, elems, is_linear, type_param_count) ==
    [tag |-> tag, elems |-> elems, is_linear |-> is_linear,
     type_param_count |-> type_param_count]

ty_i32 == Ty("TYPE_PRIMITIVE", <<>>, FALSE, 0)

\* new_type_parameter: the parameter T of a generic struct.
ty_T == Ty("TYPE_TYPE_PARAMETER", <<>>, FALSE, 0)

\* new_linear_type (457-462): Affine of a linear type is that type.
NewLinearType(elem) ==
    IF elem.tag = "TYPE_LINEAR" THEN elem ELSE Ty("TYPE_LINEAR", <<elem>>, FALSE, 0)

NewArrayType(elem) == Ty("TYPE_ARRAY", <<elem>>, FALSE, 0)

NewPtrType(elem) == Ty("TYPE_PTR", <<elem>>, FALSE, 0)

\* new_tagged_type (448-455).
NewTaggedType(inner, args) == Ty("TYPE_TAGGED", <<inner>> \o args, FALSE, 0)

\* type_is_linear (605-613).
RECURSIVE TypeIsLinear(_)
TypeIsLinear(type) ==
    IF type.tag \in {"TYPE_ARRAY", "TYPE_TAGGED"} THEN TypeIsLinear(type.elems[1])
    ELSE IF type.tag = "TYPE_STRUCT" THEN type.is_linear
    ELSE type.tag = "TYPE_LINEAR"

\* The type parameters are used by a type.
RECURSIVE UsesParameter(_)
UsesParameter(type) ==
    \/ type.tag = "TYPE_TYPE_PARAMETER"
    \/ type.tag # "TYPE_STRUCT" /\ \E i \in DOMAIN type.elems : UsesParameter(type.elems[i])

\* new_struct_type (400-421) as analyze_struct calls it: the flag is set from
\* the declared field types.
NewStructType(fields) ==
    Ty("TYPE_STRUCT", fields, \E i \in DOMAIN fields : TypeIsLinear(fields[i]),
       IF \E i \in DOMAIN fields : UsesParameter(fields[i]) THEN 1 ELSE 0)

\* The type of the value analyze_struct_ctor builds from a struct type and the
\* type argument inferred for T (1609-1611).
StructCtorType(struct_type, type_arg) ==
    IF struct_type.type_param_count # 0
    THEN NewTaggedType(struct_type, <<type_arg>>)
    ELSE struct_type

\* The types written for a field: i32, Affine[i32], T, and arrays of and a
\* pointer to them.
LeafTypes == {ty_i32, NewLinearType(ty_i32), ty_T}

FieldTypes ==
    LeafTypes \cup {NewArrayType(t) : t \in LeafTypes} \cup {NewPtrType(NewLinearType(ty_i32))}

StructTypes ==
    {NewStructType(fields) : fields \in UNION {[1 .. n -> FieldTypes] : n \in 1 .. MaxFields}}

TypeArgs == {ty_i32, NewLinearType(ty_i32)}

\* The types of the values the checker meets: no free type parameter.
ValueTypes ==
    {t \in FieldTypes : ~UsesParameter(t)}
        \cup {StructCtorType(s, a) : s \in StructTypes, a \in TypeArgs}

\* replace_type_parameters (1267-1333) with one argument.
RECURSIVE Substitute(_, _)
Substitute(type_arg, generic) ==
    IF generic.tag = "TYPE_TYPE_PARAMETER" THEN type_arg
    ELSE IF generic.tag \in {"TYPE_ARRAY", "TYPE_PTR"}
    THEN Ty(generic.tag, <<Substitute(type_arg, generic.elems[1])>>, FALSE, 0)
    ELSE IF generic.tag = "TYPE_LINEAR" THEN NewLinearType(Substitute(type_arg, generic.elems[1]))
    ELSE generic

\* A value of the type holds a value of a linear type: directly, in an array
\* element, under a tag, or in a field of a struct (the field types of an
\* instantiated generic struct being the declared ones with T replaced).
RECURSIVE HoldsLinear(_)
HoldsLinear(type) ==
    IF type.tag = "TYPE_LINEAR" THEN TRUE
    ELSE IF type.tag = "TYPE_ARRAY" THEN HoldsLinear(type.elems[1])
    ELSE IF type.tag = "TYPE_STRUCT"
    THEN \E i \in DOMAIN type.elems : HoldsLinear(type.elems[i])
    ELSE IF type.tag = "TYPE_TAGGED"
    THEN IF type.elems[1].tag = "TYPE_STRUCT"
         THEN \E i \in DOMAIN type.elems[1].elems :
                  HoldsLinear(Substitute(type.elems[2], type.elems[1].elems[i]))
         ELSE HoldsLinear(type.elems[1])
    ELSE FALSE

LinearityInit ==
    /\ e_pc = "check_value"
    /\ e_in \in ValueTypes
    /\ e_out = FALSE
    /\ e_diags = {}
    /\ DrvIdle /\ RoleIdle /\ LowerIdle /\ LinIdle /\ TypeIdle

\* check_value 61-63 on an rvalue of type e_in: whether the checker goes on
\* to track the value.
LinearityCheckValue ==
    /\ e_pc = "check_value"
    /\ e_out' = TypeIsLinear(e_in)
    /\ e_pc' = "done"
    /\ UNCHANGED <<e_in, e_diags>>
    /\ UNCHANGED notExprVars

LinearityNext == LinearityCheckValue

SpecLinearity == LinearityInit /\ [][LinearityNext]_vars

\* C26: the checker treats a type as linear exactly when it is a linear type
\* or holds one through arrays, tagged wrappers or struct fields; a struct,
\* an instantiation of a generic struct included, is linear iff one of its
\* field types is.
C26_LinearityPropagates == e_pc = "done" => (e_out <=> HoldsLinear(e_in))

(***************************************************************************)
(* Section 13.  Constant shifts and integer casts (type-analysis.c         *)
(* analyze_bin_bit, truncate_int_const, analyze_cast).                     *)
(*                                                                         *)
(* int64_t is Int64Bits wide here, as in section 6; the integer types are  *)
(* i8 and i64 with the widths TypeBits.                                    *)
(***************************************************************************)
\* The value of the int64_t whose bits are x modulo 2^Int64Bits.
ToInt64(x) ==
    IF x % (2 ^ Int64Bits) > INT64_MAX THEN (x % (2 ^ Int64Bits)) - 2 ^ Int64Bits
    ELSE x % (2 ^ Int64Bits)

\* The values `((uint64_t) 1 << bits) - 1` can take, read as int64_t: a shift
\* by the full width of uint64_t is undefined, the hardware gives 1 << 0 or 0.
Masks(bits) == IF bits < Int64Bits THEN {2 ^ bits - 1} ELSE {0, -1}

\* x & mask for the masks above.
AndMask(x, mask) ==
    IF mask = 0 THEN 0 ELSE IF mask = -1 THEN x ELSE x % (mask + 1)

\* x | ~mask for the masks above and negative x.
OrNotMask(x, mask) ==
    IF mask = 0 THEN -1 ELSE IF mask = -1 THEN x ELSE (x % (mask + 1)) - (mask + 1)

\* x >> n on int64_t: the sign is shifted in.
ShiftRight(x, n) == (x - (x % (2 ^ n))) \div (2 ^ n)

BitTags == {"TIR_SHL", "TIR_SHR"}

\* analyze_bin_bit (1135-1192) on two integer constants of one type: the set
\* of the outcomes.
AnalyzeBinBit(tag, left_value, right_value) ==
    IF left_value.type # right_value.type
    THEN {Returned1(null_value, {"ERROR_BINARY_UNEXPECTED_OPERANDS"})}
    ELSE IF right_value.i < 0
    THEN {Returned1(null_value, {"ERROR_CONST_NEGATIVE_SHIFT"})}
    ELSE IF tag = "TIR_SHL"
    THEN { Only({ Returned1(NewIntConstant(left_value.type,
                                           IF AndMask(r, mask) = 0 THEN 0 ELSE r), {})
                  : r \in {IF right_value.i >= TypeBits(left_value.type) THEN 0
                           ELSE ToInt64(left_value.i * 2 ^ right_value.i)} })
           : mask \in Masks(TypeBits(left_value.type)) }
    ELSE {Returned1(NewIntConstant(left_value.type,
                                   IF right_value.i >= TypeBits(left_value.type)
                                   THEN (IF left_value.i < 0 THEN -1 ELSE 0)
                                   ELSE ShiftRight(left_value.i, right_value.i)), {})}

\* truncate_int_const (1508-1519): the set of the outcomes.
TruncateIntConst(i, bits) ==
    {IF i < 0 THEN OrNotMask(i, mask) ELSE AndMask(i, mask) : mask \in Masks(bits)}

\* get_cast_type 1494-1499 on two integer types other than char.
GetCastType(operand_type, cast_type) ==
    IF TypeBits(cast_type) > TypeBits(operand_type) THEN "TIR_SEXT" ELSE "TIR_ITRUNC"

\* analyze_cast (1521-1567) on an integer constant and an integer type.
AnalyzeCast(operand_value, cast_type) ==
    IF operand_value.type = cast_type THEN {Returned1(operand_value, {})}
    ELSE IF GetCastType(operand_value.type, cast_type) = "TIR_ITRUNC"
    THEN {Returned1(NewIntConstant(cast_type, r), {})
            : r \in TruncateIntConst(operand_value.i, TypeBits(cast_type))}
    ELSE {Returned1(NewIntConstant(cast_type, operand_value.i), {})}

\* The integer constants of a type.
IntConstants(type) ==
    {NewIntConstant(type, i) : i \in IntMin(TypeBits(type)) .. IntMax(TypeBits(type))}

BitsInit ==
    /\ e_pc = "bits"
    /\ e_in = [tag |-> "none", left |-> NoOperand, right |-> NoOperand]
    /\ e_out = null_value
    /\ e_diags = {}
    /\ DrvIdle /\ RoleIdle /\ LowerIdle /\ LinIdle /\ TypeIdle

\* A shift of two constants of one integer type.
BitsShift ==
    /\ e_pc = "bits"
    /\ \E tag \in BitTags, type \in IntTypes :
          \E left \in IntConstants(type), right \in IntConstants(type) :
             \E r \in AnalyzeBinBit(tag, left, right) :
                FoldSet(tag, left, right, r)

\* A cast of a constant to an integer type; the type is kept in `right`.
BitsCast ==
    /\ e_pc = "bits"
    /\ \E type \in IntTypes, cast_type \in IntTypes :
          \E operand \in IntConstants(type) :
             \E r \in AnalyzeCast(operand, cast_type) :
                FoldSet("TIR_CAST", operand, NewIntConstant(cast_type, 0), r)

BitsNext ==
    \/ BitsShift
    \/ BitsCast

SpecBits == BitsInit /\ [][BitsNext]_vars

\* The w-bit two's-complement value of x.
ToSigned(x, bits) ==
    IF x % (2 ^ bits) > IntMax(bits) THEN (x % (2 ^ bits)) - 2 ^ bits ELSE x % (2 ^ bits)

\* C27: folding a shift of constants of an integer type of width w: a
\* negative count is an error; a count at or past w gives 0 for shl and the
\* sign fill of the left operand for shr; a count in [0, w) gives the w-bit
\* two's-complement shift result, a value of the operand type.
C27_ShiftFolding ==
    (e_pc = "bits" /\ e_in.tag \in BitTags)
        => IF e_in.right.i < 0
           THEN e_out = null_value /\ e_diags = {"ERROR_CONST_NEGATIVE_SHIFT"}
           ELSE /\ e_diags = {}
                /\ e_out = NewIntConstant(e_in.left.type,
                      IF e_in.right.i >= TypeBits(e_in.left.type)
                      THEN (IF e_in.tag = "TIR_SHR" /\ e_in.left.i < 0 THEN -1 ELSE 0)
                      ELSE IF e_in.tag = "TIR_SHL"
                      THEN ToSigned(e_in.left.i * 2 ^ e_in.right.i, TypeBits(e_in.left.type))
                      ELSE ShiftRight(e_in.left.i, e_in.right.i))
                /\ IntFitsInType(e_out.i, e_in.left.type)

\* C28: folding an integer-to-integer cast of a constant truncates to the
\* destination width: the constant lies in the range of the destination type
\* and is congruent to the operand modulo 2^bits.
C28_CastTruncates ==
    (e_pc = "bits" /\ e_in.tag = "TIR_CAST")
        => /\ e_out.tag = "VAL_CONST_INT"
           /\ e_out.type = e_in.right.type
           /\ IntFitsInType(e_out.i, e_out.type)
           /\ (e_out.i - e_in.left.i) % (2 ^ TypeBits(e_out.type)) = 0

====
